---- MODULE Spec2Model ----
(***************************************************************************)
(* A model of the Turing-machine simulator and combinator library          *)
(* (turing.hpp / turing.cpp / main.cpp).                                   *)
(*                                                                         *)
(* Strings (state labels, titles, inputs) are sequences of one-character   *)
(* strings, so that std::format("[{}]{}", str, s) is real concatenation.   *)
(* A transition table is a function from keys <<state, symbol>> to         *)
(* reactions <<<<next_state, write_symbol>>, direction>>.                  *)
(***************************************************************************)
EXTENDS Integers, Sequences, FiniteSets, TLC

VARIABLES
    tm,       \* the machine under test (a turing_machine value)
    op,       \* name of the last member function called on tm
    status,   \* what the last call returned ("none" for a void member function)
    input,    \* the input of the run being recorded in log
    log,      \* <<status, tape(), head_index>> of every step since the last load_input
    prevlog,  \* the log of the previous run, when it was a run on the same input
    tms,      \* the operand machines of the call that produced tm (a list, as passed)
    sts,      \* what the last step() of each operand machine returned
    args,     \* the other arguments of the last call (strings, alphabet)
    count,    \* calls or steps made so far, where a specification bounds them
    runs,     \* reference runs beside tm: records [tm, status, steps]
    text      \* the lines last written by operator<< or handed to operator>>

vars == <<tm, op, status, input, log, prevlog, tms, sts, args, count, runs, text>>

runlog == <<input, log, prevlog, text>>
operands == <<tms, sts, args, count, runs>>

----------------------------------------------------------------------------
(* Labels and symbols used by the checked configurations *)

qStart == <<"q", "S", "t", "a", "r", "t">>
Y == <<"Y">>
H == <<"H">>
q1 == <<"q", "1">>
MyMachine == <<"M", "y", "M", "a", "c", "h", "i", "n", "e">>

blank_symbol == "_"

left == "left"
right == "right"
hold == "hold"

index_diff(d) ==
    CASE d = left -> -1
      [] d = right -> 1
      [] d = hold -> 0

----------------------------------------------------------------------------
(* turing_machine: construction and mutators *)

\* A default-constructed machine holding the given table.
turing_machine(transitions) ==
    [ transitions   |-> transitions,
      initial       |-> qStart,
      halt_state    |-> H,
      accept        |-> Y,
      title         |-> MyMachine,
      tape_right    |-> <<>>,
      tape_left     |-> <<>>,
      head_index    |-> 0,
      current_state |-> qStart ]

EmptyTable == [k \in {} |-> <<>>]

\* add_transition done with insert / try_emplace: an existing entry is kept
add_transition_insertOnly(m, state, reaction) ==
    [m EXCEPT !.transitions =
        [k \in DOMAIN m.transitions \cup {state} |->
            IF k \in DOMAIN m.transitions THEN m.transitions[k] ELSE reaction]]

\* transitions[state] = reaction
add_transition(m, state, reaction) ==
    [m EXCEPT !.transitions =
        [k \in DOMAIN m.transitions \cup {state} |->
            IF k = state THEN reaction ELSE m.transitions[k]]]

set_initial_state(m, name) == [m EXCEPT !.initial = name]

set_accept_state(m, name) == [m EXCEPT !.accept = name]

set_title(m, title) == [m EXCEPT !.title = title]

\* load_input without line 223: the left half of the tape survives the reload
load_input_keepLeft(m, in) ==
    [m EXCEPT !.current_state = m.initial,
              !.head_index = 0,
              !.tape_right = IF in = <<>> THEN <<blank_symbol>> ELSE in]

\* load_input without the input.empty() branch: an empty input gives an empty tape
load_input_emptyTape(m, in) ==
    [m EXCEPT !.current_state = m.initial,
              !.head_index = 0,
              !.tape_left = <<>>,
              !.tape_right = in]

load_input(m, in) ==
    [m EXCEPT !.current_state = m.initial,
              !.head_index = 0,
              !.tape_left = <<>>,
              !.tape_right = IF in = <<>> THEN <<blank_symbol>> ELSE in]

----------------------------------------------------------------------------
(* turing_machine: the simulator *)

\* tape_right.at(head_index) throws std::out_of_range when there is no such cell
HeadInRange(m) ==
    IF m.head_index >= 0
    THEN m.head_index < Len(m.tape_right)
    ELSE -m.head_index - 1 < Len(m.tape_left)

\* the cell at tape position p
Cell(m, p) == IF p >= 0 THEN m.tape_right[p + 1] ELSE m.tape_left[-p]

current_symbol(m) == Cell(m, m.head_index)

\* the write through the reference current_symbol: the cell the head was on
WriteCell(m, p, w) ==
    IF p >= 0
    THEN [m EXCEPT !.tape_right[p + 1] = w]
    ELSE [m EXCEPT !.tape_left[-p] = w]

\* growth of the right half only
Grow_rightOnly(m) ==
    IF m.head_index = Len(m.tape_right)
    THEN [m EXCEPT !.tape_right = Append(m.tape_right, blank_symbol)]
    ELSE m

Grow(m) ==
    LET r == IF m.head_index = Len(m.tape_right)
             THEN [m EXCEPT !.tape_right = Append(m.tape_right, blank_symbol)]
             ELSE m
    IN  IF -r.head_index - 1 = Len(r.tape_left)
        THEN [r EXCEPT !.tape_left = Append(r.tape_left, blank_symbol)]
        ELSE r

StatusOf(m) ==
    IF m.current_state = m.halt_state THEN "halt"
    ELSE IF m.current_state = m.accept THEN "accept"
    ELSE "running"

\* apply_reaction writing by index after the head has moved: the write lands on
\* the new head position
apply_reaction_writeAtNewHead(m, reaction) ==
    LET moved == [m EXCEPT !.current_state = reaction[1][1],
                           !.head_index = m.head_index + index_diff(reaction[2])]
        grown == Grow(moved)
    IN  WriteCell(grown, grown.head_index, reaction[1][2])

\* lines 374-384 of step(): the new state, the head move, the write, the growth
apply_reaction(m, reaction) ==
    LET moved == [m EXCEPT !.current_state = reaction[1][1],
                           !.head_index = m.head_index + index_diff(reaction[2])]
    IN  Grow(WriteCell(moved, m.head_index, reaction[1][2]))

\* A step that looks the reaction up with transitions[state_from], which inserts
\* and applies a value-initialised reaction when the key is missing.
step_defaultInsert(m) ==
    IF ~HeadInRange(m)
    THEN [tm |-> m, status |-> "out_of_range"]
    ELSE LET state_from == <<m.current_state, current_symbol(m)>>
             withKey == IF state_from \in DOMAIN m.transitions THEN m
                        ELSE add_transition(m, state_from, <<<<<<>>, "0">>, left>>)
             after == apply_reaction(withKey, withKey.transitions[state_from])
         IN  [tm |-> after, status |-> StatusOf(after)]

\* step(): the machine afterwards and the status returned
step(m) ==
    IF ~HeadInRange(m)
    THEN [tm |-> m, status |-> "out_of_range"]
    ELSE LET state_from == <<m.current_state, current_symbol(m)>>
         IN  IF state_from \notin DOMAIN m.transitions
             THEN [tm |-> m, status |-> "reject"]
             ELSE LET after == apply_reaction(m, m.transitions[state_from])
                  IN  [tm |-> after, status |-> StatusOf(after)]

Reverse(s) == [i \in 1..Len(s) |-> s[Len(s) + 1 - i]]

tape(m) == Reverse(m.tape_left) \o m.tape_right

----------------------------------------------------------------------------
(* turing_machine: the composition algebra *)

\* a merge in which the incoming entry wins
add_transitions_overwriting(m, table) ==
    [m EXCEPT !.transitions =
        [k \in DOMAIN m.transitions \cup DOMAIN table |->
            IF k \in DOMAIN table THEN table[k] ELSE m.transitions[k]]]

\* this->transitions.merge(table): entries whose key is already present stay out
add_transitions(m, table) ==
    [m EXCEPT !.transitions =
        [k \in DOMAIN m.transitions \cup DOMAIN table |->
            IF k \in DOMAIN m.transitions THEN m.transitions[k] ELSE table[k]]]

\* the loop of redirect_state over the symbols still to do
RECURSIVE redirect_loop(_, _, _, _)
redirect_loop(m, state_from, state_to, symbols) ==
    IF symbols = {} THEN m
    ELSE LET symbol == CHOOSE c \in symbols : TRUE
         IN  redirect_loop(
                 add_transition(m, <<state_from, symbol>>, <<<<state_to, symbol>>, hold>>),
                 state_from, state_to, symbols \ {symbol})

\* a redirect that moves the entry it finds under (state_from, symbol) to a
\* primed copy of state_from before installing the redirect
RECURSIVE redirect_keepPrior_loop(_, _, _, _)
redirect_keepPrior_loop(m, state_from, state_to, symbols) ==
    IF symbols = {} THEN m
    ELSE LET symbol == CHOOSE c \in symbols : TRUE
             key == <<state_from, symbol>>
             saved == IF key \in DOMAIN m.transitions
                      THEN add_transition(m, <<state_from \o <<"'">>, symbol>>, m.transitions[key])
                      ELSE m
         IN  redirect_keepPrior_loop(
                 add_transition(saved, key, <<<<state_to, symbol>>, hold>>),
                 state_from, state_to, symbols \ {symbol})

redirect_state_keepPrior(m, state_from, state_to, alphabet) ==
    redirect_keepPrior_loop(m, state_from, state_to, alphabet)

redirect_state(m, state_from, state_to, alphabet) ==
    redirect_loop(m, state_from, state_to, alphabet)

\* a callback that leaves out the closing bracket
prefix_callback_unclosed(str, s) == <<"[">> \o str \o s

\* the callback prefix() passes to transform_states: std::format("[{}]{}", str, s)
prefix_callback(str, s) == <<"[">> \o str \o <<"]">> \o s

\* transform_states renaming the keys only: next-states keep their old labels
transform_states_keysOnly(m, str) ==
    LET result_transitions ==
            [k2 \in {<<prefix_callback(str, k[1]), k[2]>> : k \in DOMAIN m.transitions} |->
                LET k == CHOOSE k \in DOMAIN m.transitions :
                             <<prefix_callback(str, k[1]), k[2]>> = k2
                IN  m.transitions[k]]
        result == turing_machine(result_transitions)
    IN  set_title(
            set_accept_state(
                set_initial_state(result, prefix_callback(str, m.initial)),
                prefix_callback(str, m.accept)),
            m.title)

\* transform_states that leaves the accept label as it was
transform_states_acceptKept(m, str) ==
    LET result_transitions ==
            [k2 \in {<<prefix_callback(str, k[1]), k[2]>> : k \in DOMAIN m.transitions} |->
                LET k == CHOOSE k \in DOMAIN m.transitions :
                             <<prefix_callback(str, k[1]), k[2]>> = k2
                    reaction == m.transitions[k]
                IN  <<<<prefix_callback(str, reaction[1][1]), reaction[1][2]>>, reaction[2]>>]
        result == turing_machine(result_transitions)
    IN  set_title(
            set_accept_state(
                set_initial_state(result, prefix_callback(str, m.initial)),
                m.accept),
            m.title)

\* transform_states with the callback of prefix(str); the callback is injective,
\* so each renamed key has one source entry whatever the iteration order
transform_states(m, str) ==
    LET result_transitions ==
            [k2 \in {<<prefix_callback(str, k[1]), k[2]>> : k \in DOMAIN m.transitions} |->
                LET k == CHOOSE k \in DOMAIN m.transitions :
                             <<prefix_callback(str, k[1]), k[2]>> = k2
                    reaction == m.transitions[k]
                IN  <<<<prefix_callback(str, reaction[1][1]), reaction[1][2]>>, reaction[2]>>]
        result == turing_machine(result_transitions)
    IN  set_title(
            set_accept_state(
                set_initial_state(result, prefix_callback(str, m.initial)),
                prefix_callback(str, m.accept)),
            m.title)

prefix(m, str) == transform_states(m, str)

prefixed(m) == prefix(m, m.title)

\* a fold step that leaves out set_accept_state: the result keeps the accept
\* label of the machines folded so far
concat_step_keepAccept(first, second, alphabet) ==
    LET prefixed_second == prefixed(second)
        redirected == redirect_state(first, first.accept, prefixed_second.initial, alphabet)
    IN  add_transitions(redirected, prefixed_second.transitions)

\* a fold step that redirects to second.initial instead of the prefixed label
concat_step_unprefixedTarget(first, second, alphabet) ==
    LET prefixed_second == prefixed(second)
        redirected == redirect_state(first, first.accept, second.initial, alphabet)
        merged == add_transitions(redirected, prefixed_second.transitions)
    IN  set_accept_state(merged, prefixed_second.accept)

\* a fold step without the redirect of first.accept
concat_step_noRedirect(first, second, alphabet) ==
    LET prefixed_second == prefixed(second)
        merged == add_transitions(first, prefixed_second.transitions)
    IN  set_accept_state(merged, prefixed_second.accept)

\* the fold step of multiconcat
concat_step(first, second, alphabet) ==
    LET prefixed_second == prefixed(second)
        redirected == redirect_state(first, first.accept, prefixed_second.initial, alphabet)
        merged == add_transitions(redirected, prefixed_second.transitions)
    IN  set_accept_state(merged, prefixed_second.accept)

RECURSIVE fold_left(_, _, _)
fold_left(rest, acc, alphabet) ==
    IF rest = <<>> THEN acc
    ELSE fold_left(Tail(rest), concat_step(acc, Head(rest), alphabet), alphabet)

\* multiconcat over a nonempty list of machines
multiconcat(machines, alphabet, title) ==
    set_title(fold_left(Tail(machines), prefixed(Head(machines)), alphabet), title)

\* a fold step that merges the second table under the second machine's title
union_step_prefixed(first, second) ==
    add_transitions(first, prefixed(second).transitions)

\* the fold step of multiunion
union_step(first, second) ==
    add_transitions(first, second.transitions)

RECURSIVE fold_left_union(_, _)
fold_left_union(rest, acc) ==
    IF rest = <<>> THEN acc
    ELSE fold_left_union(Tail(rest), union_step(acc, Head(rest)))

\* multiunion over a nonempty list of machines
multiunion(machines, title) ==
    set_title(fold_left_union(Tail(machines), Head(machines)), title)

----------------------------------------------------------------------------
(* namespace component: the machine builders of main.cpp *)

\* component::alphabet, "1234:#_"
component_alphabet == {"1", "2", "3", "4", ":", "#", "_"}

Digits == <<"0", "1", "2", "3", "4", "5", "6", "7", "8", "9">>

\* std::to_string of a non-negative int
RECURSIVE std_to_string(_)
std_to_string(n) ==
    IF n < 10 THEN <<Digits[n + 1]>>
    ELSE std_to_string(n \div 10) \o <<Digits[(n % 10) + 1]>>

\* iota(0) | take(amount) | transform(transition_builder(symbol)), as a table
move_entries(amount, symbol, direction) ==
    [k \in {<<std_to_string(idx), symbol>> : idx \in 0..(amount - 1)} |->
        LET idx == CHOOSE i \in 0..(amount - 1) : std_to_string(i) = k[1]
        IN  <<<<std_to_string(idx + 1), symbol>>, direction>>]

\* the loop of _move over the symbols of the alphabet still to do
RECURSIVE move_loop(_, _, _, _)
move_loop(m, amount, direction, symbols) ==
    IF symbols = {} THEN m
    ELSE LET symbol == CHOOSE c \in symbols : TRUE
             chained == add_transitions(m, move_entries(amount, symbol, direction))
             closed == add_transition(chained, <<std_to_string(amount), symbol>>,
                                      <<<<chained.accept, symbol>>, hold>>)
         IN  move_loop(closed, amount, direction, symbols \ {symbol})

_move(amount, name, direction) ==
    set_title(
        move_loop(set_initial_state(turing_machine(EmptyTable), <<"0">>),
                  amount, direction, component_alphabet),
        name)

\* a move_right that passes direction left
move_right_asLeft(amount, name) == _move(amount, name, left)

move_right(amount, name) == _move(amount, name, right)

move_left(amount, name) == _move(amount, name, left)

search == <<"s", "e", "a", "r", "c", "h">>

\* a find loop whose needle entry moves the head like the other entries
RECURSIVE find_loop_needleMoves(_, _, _, _)
find_loop_needleMoves(m, needle, direction, symbols) ==
    IF symbols = {} THEN m
    ELSE LET symbol == CHOOSE c \in symbols : TRUE
             is_needle == symbol = needle
         IN  find_loop_needleMoves(
                 add_transition(m, <<search, symbol>>,
                     <<<<IF is_needle THEN m.accept ELSE search, symbol>>, direction>>),
                 needle, direction, symbols \ {symbol})

\* the loop of find over the symbols of the alphabet still to do
RECURSIVE find_loop(_, _, _, _)
find_loop(m, needle, direction, symbols) ==
    IF symbols = {} THEN m
    ELSE LET symbol == CHOOSE c \in symbols : TRUE
             is_needle == symbol = needle
         IN  find_loop(
                 add_transition(m, <<search, symbol>>,
                     <<<<IF is_needle THEN m.accept ELSE search, symbol>>,
                       IF is_needle THEN hold ELSE direction>>),
                 needle, direction, symbols \ {symbol})

find(needle, name, direction) ==
    set_title(
        find_loop(set_initial_state(turing_machine(EmptyTable), search),
                  needle, direction, component_alphabet),
        name)

find_right(needle, name) == find(needle, name, right)

\* a find_left that searches to the right
find_left_asRight(needle, name) == find(needle, name, right)

find_left(needle, name) == find(needle, name, left)

consume_right(symbol, name) ==
    LET named == set_initial_state(turing_machine(EmptyTable), <<symbol>>)
        tm1 == add_transition(named, <<named.initial, symbol>>,
                              <<<<named.accept, symbol>>, right>>)
    IN  set_title(tm1, name)

checker_state == <<"c", "h", "e", "c", "k">>
break_state == <<"b", "r", "e", "a", "k">>

do_until == "do_until"
do_while == "do_while"

\* a repeat that leaves out the entry (check, symbol)
repeat_noGuardEntry(m, type, symbol, name) ==
    LET repeater == multiconcat(<<m>>, component_alphabet, name)
        to_check == redirect_state(repeater, repeater.accept, checker_state, component_alphabet)
        from_check == redirect_state(to_check, checker_state,
                          IF type = do_until THEN to_check.initial ELSE break_state,
                          component_alphabet)
    IN  set_accept_state(from_check, break_state)

\* a repeat whose (check, symbol) entry does not replace the blanket one
repeat_insertOnlyGuard(m, type, symbol, name) ==
    LET repeater == multiconcat(<<m>>, component_alphabet, name)
        to_check == redirect_state(repeater, repeater.accept, checker_state, component_alphabet)
        from_check == redirect_state(to_check, checker_state,
                          IF type = do_until THEN to_check.initial ELSE break_state,
                          component_alphabet)
        guarded == add_transition_insertOnly(from_check, <<checker_state, symbol>>,
                       <<<<IF type = do_until THEN break_state ELSE from_check.initial,
                           symbol>>, hold>>)
    IN  set_accept_state(guarded, break_state)

repeat(m, type, symbol, name) ==
    LET repeater == multiconcat(<<m>>, component_alphabet, name)
        to_check == redirect_state(repeater, repeater.accept, checker_state, component_alphabet)
        from_check == redirect_state(to_check, checker_state,
                          IF type = do_until THEN to_check.initial ELSE break_state,
                          component_alphabet)
        guarded == add_transition(from_check, <<checker_state, symbol>>,
                       <<<<IF type = do_until THEN break_state ELSE from_check.initial,
                           symbol>>, hold>>)
    IN  set_accept_state(guarded, break_state)

----------------------------------------------------------------------------
(* operator<< and operator>>: the textual form. A text is the sequence of its *)
(* lines, each line a string without its terminating newline; every line is   *)
(* terminated, as operator<< writes them (std::endl).                         *)

specifier_to_direction ==
    [sp \in {<<"<">>, <<">">>, <<"-">>} |->
        IF sp = <<"<">> THEN left ELSE IF sp = <<">">> THEN right ELSE hold]

direction_to_specifier ==
    [d \in {left, right, hold} |->
        CHOOSE sp \in DOMAIN specifier_to_direction : specifier_to_direction[sp] = d]

\* views::split of a nonempty rest: the text after a last separator is a
\* field of its own, possibly empty
RECURSIVE split_fields(_, _)
split_fields(str, sep) ==
    IF \A i \in 1..Len(str) : str[i] # sep THEN <<str>>
    ELSE LET i == CHOOSE j \in 1..Len(str) :
                      str[j] = sep /\ \A h \in 1..(j - 1) : str[h] # sep
         IN  <<SubSeq(str, 1, i - 1)>> \o split_fields(SubSeq(str, i + 1, Len(str)), sep)

\* split_line: views::split yields nothing for an empty string
split_line(str, sep) == IF str = <<>> THEN <<>> ELSE split_fields(str, sep)

\* the characters of " \t\n\v\r\f" that a modelled string can hold
is_space(p) == p \in {" ", "\t", "\n", "\r", "\f"}

RECURSIVE drop_while_space(_)
drop_while_space(str) ==
    IF str # <<>> /\ is_space(Head(str)) THEN drop_while_space(Tail(str)) ELSE str

trim(str) == Reverse(drop_while_space(Reverse(drop_while_space(str))))

starts_with(str, p) == Len(p) <= Len(str) /\ SubSeq(str, 1, Len(p)) = p

InitKeyword == <<"i", "n", "i", "t", ":", " ">>
AcceptKeyword == <<"a", "c", "c", "e", "p", "t", ":", " ">>

\* the three lines operator<< writes for one entry
entry_lines(key, val) ==
    << key[1] \o <<",">> \o <<key[2]>>,
       val[1][1] \o <<",">> \o <<val[1][2]>> \o <<",">> \o direction_to_specifier[val[2]],
       <<>> >>

RECURSIVE entries_out(_, _)
entries_out(m, order) ==
    IF order = <<>> THEN <<>>
    ELSE entry_lines(Head(order), m.transitions[Head(order)]) \o entries_out(m, Tail(order))

\* operator<<; order is the order in which the unordered_map is iterated
operator_out(m, order) ==
    <<InitKeyword \o m.initial, AcceptKeyword \o m.accept, <<>>>> \o entries_out(m, order)

\* field[0] of a string_view: reading it from an empty field is undefined and
\* yields whatever character lies there (junk)
first_char(field, junk) == IF field = <<>> THEN junk ELSE field[1]

\* the loop of operator>> from line i on; failed is the std::logic_error
RECURSIVE read_records(_, _, _, _)
read_records(m, lines, i, junk) ==
    IF i > Len(lines) THEN [tm |-> m, failed |-> FALSE]
    ELSE IF lines[i] = <<>> \/ starts_with(lines[i], <<"/", "/">>)
    THEN read_records(m, lines, i + 1, junk)
    ELSE LET values_from == split_line(lines[i], ",")
             to_line == IF i + 1 <= Len(lines) THEN lines[i + 1] ELSE <<>>
             values_to == split_line(to_line, ",")
         IN  IF Len(values_from) < 2 \/ Len(values_to) < 3
                 \/ values_to[3] \notin DOMAIN specifier_to_direction
             THEN [tm |-> m, failed |-> TRUE]
             ELSE read_records(
                      add_transition(m,
                          <<values_from[1], first_char(values_from[2], junk)>>,
                          << <<values_to[1], first_char(values_to[2], junk)>>,
                             specifier_to_direction[values_to[3]] >>),
                      lines, i + 2, junk)

\* split_line(line, ':')[1] is defined: the line has a second field
header_defined(lines) ==
    /\ Len(lines) >= 2
    /\ Len(split_line(lines[1], ":")) >= 2
    /\ Len(split_line(lines[2], ":")) >= 2

\* an operator>> that leaves the machine as it was when the read fails
operator_in_allOrNothing(m, lines, junk) ==
    LET named == set_initial_state(m, trim(split_line(lines[1], ":")[2]))
        accepting == set_accept_state(named, trim(split_line(lines[2], ":")[2]))
        r == read_records(accepting, lines, 3, junk)
    IN  IF r.failed THEN [tm |-> m, failed |-> TRUE] ELSE r

\* operator>> on a text with defined header lines
operator_in(m, lines, junk) ==
    LET named == set_initial_state(m, trim(split_line(lines[1], ":")[2]))
        accepting == set_accept_state(named, trim(split_line(lines[2], ":")[2]))
    IN  read_records(accepting, lines, 3, junk)

----------------------------------------------------------------------------
(* The checked configurations: tables, labels, inputs *)

MaxInputLen == 2
MaxTape == 4

InputSymbols == {"a", "b"}
Labels == {qStart, Y, H}

\* transition entries a client passes to the constructor
TransitionPool ==
    { <<<<qStart, "a">>, <<<<qStart, "_">>, right>>>>,
      <<<<qStart, "a">>, <<<<q1, "a">>, left>>>>,
      <<<<qStart, "_">>, <<<<Y, "a">>, left>>>>,
      <<<<qStart, "_">>, <<<<H, "_">>, hold>>>>,
      <<<<Y, "_">>, <<<<qStart, "a">>, right>>>>,
      <<<<q1, "_">>, <<<<Y, "b">>, hold>>>>,
      <<<<H, "_">>, <<<<q1, "_">>, right>>>> }

UniqueKeys(S) == \A e1, e2 \in S : e1[1] = e2[1] => e1 = e2

\* transitions | std::ranges::to<transition_table>() for entries with unique keys
to_transition_table(S) ==
    [k \in {e[1] : e \in S} |-> (CHOOSE e \in S : e[1] = k)[2]]

Tables == {to_transition_table(S) : S \in {S \in SUBSET TransitionPool : UniqueKeys(S)}}

Inputs == UNION {[1..n -> InputSymbols] : n \in 0..MaxInputLen}

----------------------------------------------------------------------------
(* Spec: one machine, its setters, load_input and step *)

Init ==
    /\ tm \in {turing_machine(t) : t \in Tables}
    /\ op = "turing_machine"
    /\ status = "none"
    /\ input = <<>>
    /\ log = <<>>
    /\ prevlog = <<>>
    /\ text = <<>>
    /\ tms = <<>>
    /\ sts = <<>>
    /\ args = <<>>
    /\ count = 0
    /\ runs = <<>>

SetInitialState ==
    /\ \E name \in Labels : tm' = set_initial_state(tm, name)
    /\ op' = "set_initial_state"
    /\ status' = "none"
    /\ UNCHANGED <<runlog, operands>>

SetAcceptState ==
    /\ \E name \in Labels : tm' = set_accept_state(tm, name)
    /\ op' = "set_accept_state"
    /\ status' = "none"
    /\ UNCHANGED <<runlog, operands>>

LoadInput ==
    /\ \E in \in Inputs : tm' = load_input(tm, in)
    /\ op' = "load_input"
    /\ status' = "none"
    /\ UNCHANGED <<runlog, operands>>

Step ==
    /\ Len(tm.tape_left) + Len(tm.tape_right) <= MaxTape
    /\ tm' = step(tm).tm
    /\ status' = step(tm).status
    /\ op' = "step"
    /\ UNCHANGED <<runlog, operands>>

Next == SetInitialState \/ SetAcceptState \/ LoadInput \/ Step

Spec == Init /\ [][Next]_vars

----------------------------------------------------------------------------
(* Claims about step() under Spec *)

Positions(m) == (-Len(m.tape_left)) .. (Len(m.tape_right) - 1)

Loaded(m) == m.tape_right # <<>> /\ HeadInRange(m)

HeadKey(m) == <<m.current_state, current_symbol(m)>>

\* C1: on a loaded machine, a step() that finds no entry for (current_state,
\* symbol under the head) returns Reject and leaves the whole machine, run-state
\* included, as it was; a further step() from there returns Reject again with
\* nothing changed.
C1_RejectLeavesRunState ==
    [][ (op' = "step" /\ Loaded(tm)) =>
          /\ (HeadKey(tm) \notin DOMAIN tm.transitions
                => status' = "reject" /\ tm' = tm)
          /\ (status' = "reject"
                => /\ HeadKey(tm) \notin DOMAIN tm.transitions
                   /\ tm'.current_state = tm.current_state
                   /\ tm'.head_index = tm.head_index
                   /\ tm'.tape_left = tm.tape_left
                   /\ tm'.tape_right = tm.tape_right)
          /\ ((op = "step" /\ status = "reject")
                => status' = "reject" /\ tm' = tm) ]_vars

\* a step has rejected in the middle of a run, after the tape had grown leftwards
C1_Witness ==
    /\ op = "step"
    /\ status = "reject"
    /\ tm.tape_left # <<>>
    /\ tm.current_state # tm.initial

\* C2: a step() that finds ((q,s) -> ((q',w),d)) leaves w in the cell the head
\* was on, makes q' the current state, moves the head by -1, +1 or 0 for Left,
\* Right, Hold, and keeps every other materialized cell.
C2_StepWritesOldCell ==
    [][ (op' = "step" /\ Loaded(tm) /\ HeadKey(tm) \in DOMAIN tm.transitions) =>
          LET reaction == tm.transitions[HeadKey(tm)]
              p == tm.head_index
          IN  /\ Cell(tm', p) = reaction[1][2]
              /\ tm'.current_state = reaction[1][1]
              /\ reaction[2] = left => tm'.head_index = p - 1
              /\ reaction[2] = right => tm'.head_index = p + 1
              /\ reaction[2] = hold => tm'.head_index = p
              /\ \A c \in Positions(tm) \ {p} : Cell(tm', c) = Cell(tm, c)
              /\ status' = StatusOf(tm') ]_vars

\* the first step of a run on "aa" wrote a blank over the first cell and moved right
C2_Witness ==
    /\ op = "step"
    /\ status = "running"
    /\ tm.head_index = 1
    /\ tm.tape_right = <<"_", "a">>

\* C3 (as claimed): a step() that applies a transition returns Accept whenever
\* the new state is the accept label, Halt only when it is the halt label and
\* not the accept label, and Running otherwise.
C3_AcceptWhateverTheLabels ==
    (op = "step" /\ status \notin {"reject", "out_of_range"}) =>
        status = IF tm.current_state = tm.accept THEN "accept"
                 ELSE IF tm.current_state = tm.halt_state THEN "halt"
                 ELSE "running"

----------------------------------------------------------------------------
(* SpecRerun: a configured machine is loaded and stepped again and again, as  *)
(* run_input does; log records the run in progress, prevlog the run before it *)
(* when that one was on the same input.                                       *)

MaxSteps == 4

NoInput == <<"no input">>

InitRerun ==
    /\ tm \in {set_accept_state(set_initial_state(turing_machine(t), i), a) :
                  t \in Tables, i \in Labels, a \in Labels}
    /\ op = "turing_machine"
    /\ status = "none"
    /\ input = NoInput
    /\ log = <<>>
    /\ prevlog = <<>>
    /\ text = <<>>
    /\ tms = <<>>
    /\ sts = <<>>
    /\ args = <<>>
    /\ count = 0
    /\ runs = <<>>

RerunLoadInput ==
    /\ \E in \in Inputs :
          /\ tm' = load_input(tm, in)
          /\ input' = in
          /\ prevlog' = IF in = input THEN log ELSE <<>>
    /\ op' = "load_input"
    /\ status' = "none"
    /\ log' = <<>>
    /\ UNCHANGED <<text, operands>>

RerunStep ==
    /\ input # NoInput
    /\ Len(log) < MaxSteps
    /\ tm' = step(tm).tm
    /\ status' = step(tm).status
    /\ op' = "step"
    /\ log' = Append(log, <<status', tape(tm'), tm'.head_index>>)
    /\ UNCHANGED <<input, prevlog, text, operands>>

NextRerun == RerunLoadInput \/ RerunStep

SpecRerun == InitRerun /\ [][NextRerun]_vars

\* C4: load_input(s), in whatever run-state it is called, leaves current_state =
\* initial, head_index = 0, tape_left empty and tape_right = s (one blank when s
\* is empty, so that the first step consults (initial, blank)); and a rerun of
\* the same input repeats the statuses, tapes and head positions of the run before.
C4_LoadInputResets ==
    /\ op = "load_input" =>
          /\ tm.current_state = tm.initial
          /\ tm.head_index = 0
          /\ tm.tape_left = <<>>
          /\ tm.tape_right = (IF input = <<>> THEN <<blank_symbol>> ELSE input)
          /\ input = <<>> => HeadKey(tm) = <<tm.initial, blank_symbol>>
    /\ \A i \in 1..Len(log) : i <= Len(prevlog) => log[i] = prevlog[i]

\* a second run on the same input has repeated two steps of a first run that had
\* grown the tape leftwards
C4_Witness ==
    /\ Len(log) >= 2
    /\ Len(prevlog) >= Len(log)
    /\ tm.tape_left # <<>>
    /\ log[1][1] = "running"

----------------------------------------------------------------------------
(* SpecRedirect: redirect_state called on a constructed machine; tms holds the *)
(* machine as it was before the last call.                                     *)

MaxCalls == 2

Alphabets == {{"a", "_"}, {"a", "b"}}

InitRedirect ==
    /\ tm \in {turing_machine(t) : t \in Tables}
    /\ op = "turing_machine"
    /\ status = "none"
    /\ tms = <<>>
    /\ sts = <<>>
    /\ args = <<>>
    /\ count = 0
    /\ runs = <<>>
    /\ input = <<>>
    /\ log = <<>>
    /\ prevlog = <<>>
    /\ text = <<>>

RedirectState ==
    /\ count < MaxCalls
    /\ \E state_from \in Labels, state_to \in Labels, alphabet \in Alphabets :
          /\ tm' = redirect_state(tm, state_from, state_to, alphabet)
          /\ args' = <<state_from, state_to, alphabet>>
    /\ tms' = <<tm>>
    /\ op' = "redirect_state"
    /\ status' = "none"
    /\ count' = count + 1
    /\ UNCHANGED <<sts, runs, runlog>>

NextRedirect == RedirectState

SpecRedirect == InitRedirect /\ [][NextRedirect]_vars

RedirectKeys(state_from, alphabet) == {<<state_from, s>> : s \in alphabet}

RedirectInstalled(m, state_from, state_to, alphabet) ==
    \A s \in alphabet :
        /\ <<state_from, s>> \in DOMAIN m.transitions
        /\ m.transitions[<<state_from, s>>] = <<<<state_to, s>>, hold>>

\* C7 (as claimed): after redirect_state(from, to, alphabet) the table holds
\* (from, s) -> ((to, s), Hold) for every s of the alphabet, and every entry
\* that was in the table before the call is still there with the same reaction.
C7_RedirectKeepsEveryEntry ==
    op = "redirect_state" =>
        /\ RedirectInstalled(tm, args[1], args[2], args[3])
        /\ \A k \in DOMAIN tms[1].transitions :
              /\ k \in DOMAIN tm.transitions
              /\ tm.transitions[k] = tms[1].transitions[k]

\* C7 (amended): after redirect_state(from, to, alphabet) the table holds
\* (from, s) -> ((to, s), Hold) for every s of the alphabet; no key is removed,
\* and every earlier entry whose key is not (from, s) with s in the alphabet
\* keeps its reaction (an earlier entry under such a key is replaced).
C7_RedirectReplacesOnlyItsKeys ==
    op = "redirect_state" =>
        /\ RedirectInstalled(tm, args[1], args[2], args[3])
        /\ \A k \in DOMAIN tms[1].transitions :
              /\ k \in DOMAIN tm.transitions
              /\ k \notin RedirectKeys(args[1], args[3])
                    => tm.transitions[k] = tms[1].transitions[k]

\* a redirect has replaced an earlier entry of state_from and kept another entry
C7_Witness ==
    /\ op = "redirect_state"
    /\ \E k \in DOMAIN tms[1].transitions :
          /\ k \in RedirectKeys(args[1], args[3])
          /\ tm.transitions[k] # tms[1].transitions[k]
    /\ \E k \in DOMAIN tms[1].transitions : k \notin RedirectKeys(args[1], args[3])

\* C8: redirect_state(from, to, alphabet) applied a second time with the same
\* arguments changes neither the table nor initial, accept or title.
C8_RedirectIdempotent ==
    [][ (op = "redirect_state" /\ op' = "redirect_state" /\ args' = args) =>
          /\ tm'.transitions = tm.transitions
          /\ tm'.initial = tm.initial
          /\ tm'.accept = tm.accept
          /\ tm'.title = tm.title ]_vars

\* a second call has left alone a table in which the first call had replaced an entry
C8_Witness ==
    /\ op = "redirect_state"
    /\ count = 2
    /\ tms[1] = tm
    /\ RedirectInstalled(tm, args[1], args[2], args[3])
    /\ \E k \in DOMAIN tm.transitions : k \notin RedirectKeys(args[1], args[3])

----------------------------------------------------------------------------
(* SpecPrefix: a configured machine is prefixed; tms holds the operand. Both  *)
(* machines are then loaded with the same input and stepped side by side.     *)

MaxPrefixes == 1

Titles == {MyMachine, <<"t">>}
PrefixStrings == {<<"p">>, <<"t", "]">>}

InitPrefix ==
    /\ tm \in {set_title(set_accept_state(turing_machine(t), a), title) :
                  t \in Tables, a \in {Y, H}, title \in Titles}
    /\ op = "turing_machine"
    /\ status = "none"
    /\ tms = <<>>
    /\ sts = <<>>
    /\ args = <<>>
    /\ count = 0
    /\ runs = <<>>
    /\ input = <<>>
    /\ log = <<>>
    /\ prevlog = <<>>
    /\ text = <<>>

\* tm = tm.prefix(str), before any input is loaded
Prefix ==
    /\ count < MaxPrefixes
    /\ tm.tape_right = <<>>
    /\ \E str \in PrefixStrings :
          /\ tm' = prefix(tm, str)
          /\ args' = <<str>>
    /\ tms' = <<tm>>
    /\ sts' = <<"none">>
    /\ op' = "prefix"
    /\ status' = "none"
    /\ count' = count + 1
    /\ UNCHANGED <<runs, runlog>>

PrefixLoadInput ==
    /\ tms # <<>>
    /\ \E in \in Inputs :
          /\ tm' = load_input(tm, in)
          /\ tms' = <<load_input(tms[1], in)>>
    /\ sts' = <<"none">>
    /\ op' = "load_input"
    /\ status' = "none"
    /\ UNCHANGED <<args, count, runs, runlog>>

PrefixStep ==
    /\ tms # <<>>
    /\ Len(tm.tape_left) + Len(tm.tape_right) <= MaxTape
    /\ tm' = step(tm).tm
    /\ status' = step(tm).status
    /\ tms' = <<step(tms[1]).tm>>
    /\ sts' = <<step(tms[1]).status>>
    /\ op' = "step"
    /\ UNCHANGED <<args, count, runs, runlog>>

NextPrefix == Prefix \/ PrefixLoadInput \/ PrefixStep

SpecPrefix == InitPrefix /\ [][NextPrefix]_vars

\* "[p]" + q
Bracketed(p, q) == <<"[">> \o p \o <<"]">> \o q

\* C5: prefix(p)(M) has initial "[p]" + M.initial, accept "[p]" + M.accept and
\* M's title; its table has exactly the entries ("[p]"+q, s) -> (("[p]"+q', w), d)
\* for the entries (q, s) -> ((q', w), d) of M, and as many entries as M's.
C5_PrefixRenamesEveryLabel ==
    op = "prefix" =>
        LET M == tms[1]
            p == args[1]
        IN  /\ tm.initial = Bracketed(p, M.initial)
            /\ tm.accept = Bracketed(p, M.accept)
            /\ tm.title = M.title
            /\ DOMAIN tm.transitions =
                  {<<Bracketed(p, k[1]), k[2]>> : k \in DOMAIN M.transitions}
            /\ \A k \in DOMAIN M.transitions :
                  tm.transitions[<<Bracketed(p, k[1]), k[2]>>] =
                      <<<<Bracketed(p, M.transitions[k][1][1]), M.transitions[k][1][2]>>,
                        M.transitions[k][2]>>
            /\ Cardinality(DOMAIN tm.transitions) = Cardinality(DOMAIN M.transitions)

\* a titled machine with three or more entries, one of them leading to another
\* state and writing another symbol, has been prefixed
C5_Witness ==
    /\ op = "prefix"
    /\ tm.title = <<"t">>
    /\ Cardinality(DOMAIN tm.transitions) >= 3
    /\ \E k \in DOMAIN tm.transitions :
          /\ tm.transitions[k][1][1] # k[1]
          /\ tm.transitions[k][1][2] # k[2]

\* C6 (as claimed): prefix(p) renames the halt label like every other label, so
\* when the run of M returns Halt, the run of prefix(p)(M) on the same input
\* returns Halt at the same step.
C6_HaltSurvivesPrefix ==
    (op = "step" /\ tms # <<>> /\ sts[1] = "halt") =>
        /\ tm.halt_state = Bracketed(args[1], tms[1].halt_state)
        /\ status = "halt"

----------------------------------------------------------------------------
(* SpecConcat: multiconcat over a list of configured machines with pairwise    *)
(* distinct titles. For a list of two, the result, the two operands and the    *)
(* two prefixed operands are then loaded and run as run_input runs a machine   *)
(* (step while the status is Running), the second machine of each pair         *)
(* starting on the tape and head position the first one left on its Accept.    *)

MaxRounds == 5

Machine(t, i, a, title) ==
    set_title(set_accept_state(set_initial_state(turing_machine(t), i), a), title)

SubTables(pool) == {to_transition_table(S) : S \in {S \in SUBSET pool : UniqueKeys(S)}}

FirstPool ==
    { <<<<qStart, "a">>, <<<<Y, "a">>, right>>>>,
      <<<<qStart, "b">>, <<<<H, "a">>, hold>>>>,
      <<<<H, "a">>, <<<<Y, "a">>, left>>>>,
      <<<<Y, "a">>, <<<<qStart, "b">>, right>>>>,
      <<<<qStart, "_">>, <<<<Y, "b">>, hold>>>> }

SecondPool ==
    { <<<<qStart, "a">>, <<<<Y, "_">>, left>>>>,
      <<<<qStart, "_">>, <<<<Y, "_">>, hold>>>> }

Configs == {<<qStart, Y>>, <<qStart, H>>, <<Y, Y>>}

Firsts == {Machine(t, c[1], c[2], <<"A">>) : t \in SubTables(FirstPool), c \in Configs}
Seconds == {Machine(t, c[1], c[2], <<"B">>) : t \in SubTables(SecondPool), c \in Configs}
Thirds == {Machine(t, c[1], c[2], <<"C">>) : t \in SubTables(SecondPool), c \in {<<qStart, Y>>}}

\* titles "t" and "t]": "[t]" + "]Y" and "[t]]" + "Y" are the same label
BracketFirsts ==
    { Machine(to_transition_table({<<<<qStart, "a">>, <<<<<<"]", "Y">>, "a">>, hold>>>>} \cup S),
              qStart, Y, <<"t">>) :
          S \in SUBSET {<<<<<<"]", "Y">>, "a">>, <<<<Y, "a">>, right>>>>} }
BracketSeconds ==
    {Machine(t, qStart, Y, <<"t", "]">>) :
        t \in SubTables(SecondPool \cup {<<<<Y, "a">>, <<<<qStart, "_">>, left>>>>})}

OperandLists ==
    {<<A>> : A \in Firsts}
        \cup (Firsts \X Seconds)
        \cup (BracketFirsts \X BracketSeconds)
        \cup {<<A, B, C>> : A \in {F \in Firsts : F.accept = Y /\ F.initial = qStart},
                            B \in {S \in Seconds : S.initial = qStart},
                            C \in Thirds}

Solver == <<"s", "o", "l", "v", "e", "r">>

InitConcat ==
    /\ tms \in OperandLists
    /\ tm = turing_machine(EmptyTable)
    /\ op = "turing_machine"
    /\ status = "none"
    /\ sts = <<>>
    /\ args = <<>>
    /\ count = 0
    /\ runs = <<>>
    /\ input = <<>>
    /\ log = <<>>
    /\ prevlog = <<>>
    /\ text = <<>>

\* tm = turing_machine::multiconcat(tms, alphabet, "solver")
Multiconcat ==
    /\ op = "turing_machine"
    /\ \E alphabet \in Alphabets :
          /\ tm' = multiconcat(tms, alphabet, Solver)
          /\ args' = <<alphabet, Solver>>
    /\ op' = "multiconcat"
    /\ UNCHANGED <<status, tms, sts, count, runs, runlog>>

Active == {"none", "running"}

\* a run: the machine, the status its last step() returned, the steps taken
Run(m, st) == [tm |-> m, status |-> st, steps |-> 0]

\* second in its initial state on the tape and head position first is on
hand_over(second, first) ==
    [load_input(second, <<>>) EXCEPT !.tape_right = first.tape_right,
                                     !.tape_left = first.tape_left,
                                     !.head_index = first.head_index]

\* one iteration of run_input's do-while on a run that is not over
advance(r) ==
    IF r.status \in Active
    THEN [tm |-> step(r.tm).tm, status |-> step(r.tm).status, steps |-> r.steps + 1]
    ELSE r

\* the second run of a pair: it starts once the first has returned Accept
follow(s, r) ==
    IF s.status = "idle"
    THEN IF r.status = "accept" THEN Run(hand_over(s.tm, r.tm), "none") ELSE s
    ELSE advance(s)

\* run_input's load_input, on the concatenation and on the first machine of
\* each pair: runs = << A, B, A.prefix(A.title), B.prefix(B.title) >>
ConcatLoadInput ==
    /\ op = "multiconcat"
    /\ Len(tms) = 2
    /\ \E in \in Inputs :
          /\ input' = in
          /\ tm' = load_input(tm, in)
          /\ runs' = << Run(load_input(tms[1], in), "none"),
                        Run(tms[2], "idle"),
                        Run(load_input(prefixed(tms[1]), in), "none"),
                        Run(prefixed(tms[2]), "idle") >>
    /\ status' = "none"
    /\ count' = 0
    /\ op' = "load_input"
    /\ UNCHANGED <<tms, sts, args, log, prevlog, text>>

\* one iteration of every run that is not over
ConcatStep ==
    /\ op \in {"load_input", "step"}
    /\ runs # <<>>
    /\ count < MaxRounds
    /\ LET composite == advance([tm |-> tm, status |-> status, steps |-> count])
           after == << advance(runs[1]), follow(runs[2], runs[1]),
                       advance(runs[3]), follow(runs[4], runs[3]) >>
       IN  /\ (status \in Active \/ after # runs)
           /\ tm' = composite.tm
           /\ status' = composite.status
           /\ runs' = after
    /\ count' = count + 1
    /\ op' = "step"
    /\ UNCHANGED <<tms, sts, args, runlog>>

NextConcat == Multiconcat \/ ConcatLoadInput \/ ConcatStep

LabelsOf(m) ==
    {k[1] : k \in DOMAIN m.transitions}
        \cup {m.transitions[k][1][1] : k \in DOMAIN m.transitions}
        \cup {m.initial, m.accept}

\* the title-prefixed label sets of the operands are pairwise disjoint
DisjointLabels(machines) ==
    \A i, j \in 1..Len(machines) :
        i # j => LabelsOf(prefixed(machines[i])) \cap LabelsOf(prefixed(machines[j])) = {}

\* entry (q, s) -> ((q', w), d) of M renamed by M's title
RenamedKey(M, k) == <<Bracketed(M.title, k[1]), k[2]>>
RenamedReaction(M, k) ==
    <<<<Bracketed(M.title, M.transitions[k][1][1]), M.transitions[k][1][2]>>,
      M.transitions[k][2]>>

HasRenamed(m, M, k) ==
    /\ RenamedKey(M, k) \in DOMAIN m.transitions
    /\ m.transitions[RenamedKey(M, k)] = RenamedReaction(M, k)

ConcatFrame(m, machines, title) ==
    /\ m.initial = Bracketed(machines[1].title, machines[1].initial)
    /\ m.accept = Bracketed(machines[Len(machines)].title, machines[Len(machines)].accept)
    /\ m.title = title

ConcatRedirects(m, machines, alphabet) ==
    \A i \in 1..(Len(machines) - 1) :
        RedirectInstalled(m, Bracketed(machines[i].title, machines[i].accept),
                          Bracketed(machines[i + 1].title, machines[i + 1].initial), alphabet)

\* C9 (as claimed): multiconcat over M1..MN (distinct titles) has initial
\* "[t1]" + M1.initial, accept "[tN]" + MN.accept and the given title; its table
\* holds every transition of every Mi renamed by "[ti]" and, for i < N and s in
\* the alphabet, ("[ti]"+Mi.accept, s) -> (("[t(i+1)]"+M(i+1).initial, s), Hold);
\* for N = 1 no redirect entry is added.
C9_ConcatHoldsEveryTransition ==
    op = "multiconcat" =>
        /\ ConcatFrame(tm, tms, args[2])
        /\ \A i \in 1..Len(tms) : \A k \in DOMAIN tms[i].transitions :
              HasRenamed(tm, tms[i], k)
        /\ ConcatRedirects(tm, tms, args[1])
        /\ Len(tms) = 1 => tm.transitions = prefixed(tms[1]).transitions

\* C9 (amended): as claimed, when the title-prefixed label sets of M1..MN are
\* pairwise disjoint, except that of a machine Mi with i < N the transitions
\* out of Mi.accept on a symbol of the alphabet are not in the table: the
\* redirect entry has that key.
C9_ConcatHoldsAllButRedirected ==
    (op = "multiconcat" /\ DisjointLabels(tms)) =>
        /\ ConcatFrame(tm, tms, args[2])
        /\ \A i \in 1..Len(tms) : \A k \in DOMAIN tms[i].transitions :
              (i < Len(tms) /\ k[1] = tms[i].accept /\ k[2] \in args[1])
                  \/ HasRenamed(tm, tms[i], k)
        /\ ConcatRedirects(tm, tms, args[1])
        /\ Len(tms) = 1 => tm.transitions = prefixed(tms[1]).transitions

\* three machines have been concatenated; the first has a transition out of its
\* accept state that a redirect entry has replaced, and one that was kept
C9_Witness ==
    /\ op = "multiconcat"
    /\ Len(tms) = 3
    /\ DisjointLabels(tms)
    /\ \E k \in DOMAIN tms[1].transitions :
          k[1] = tms[1].accept /\ k[2] \in args[1] /\ ~HasRenamed(tm, tms[1], k)
    /\ \E k \in DOMAIN tms[1].transitions : k[1] # tms[1].accept
    /\ tms[2].transitions # EmptyTable
    /\ tms[3].transitions # EmptyTable

SpecConcat == InitConcat /\ [][NextConcat]_vars

Over(r) == r.status \notin Active \cup {"idle"}

\* both runs of a pair are over: the first did not return Accept, or the
\* second has run to its end as well
PairOver(r, s) == Over(r) /\ (r.status = "accept" => Over(s))

\* C10 (as claimed): the concatenation of A and B returns Accept on an input
\* exactly when A alone reaches Accept on it and B, from its initial state on
\* the tape and head position A left, reaches Accept; it rejects when either
\* run rejects; for every input and every pair of machines.
C10_ConcatAcceptsExactlyWhenBothAccept ==
    (op = "step" /\ Over([status |-> status]) /\ PairOver(runs[1], runs[2])) =>
        /\ status = "accept" <=> (runs[1].status = "accept" /\ runs[2].status = "accept")
        /\ "reject" \in {runs[1].status, runs[2].status} => status = "reject"

\* what the equivalence needs of A, B, the alphabet and the input: disjoint
\* title-prefixed label sets, initial # accept in both machines, and a symbol
\* of the alphabet under the head when the prefixed A returns Accept
ConcatPre ==
    /\ DisjointLabels(tms)
    /\ tms[1].initial # tms[1].accept
    /\ tms[2].initial # tms[2].accept
    /\ runs[3].status = "accept" => current_symbol(runs[3].tm) \in args[1]

\* C10 (amended): under ConcatPre, with A and B run under the labels the
\* concatenation gives them (A.prefix(A.title), B.prefix(B.title)), the
\* concatenation has returned Accept exactly when both runs have, Reject
\* exactly when one of them has, and never Halt; it takes one step more than
\* the two runs together.
C10_ConcatAcceptsWhenPrefixedRunsAccept ==
    (op \in {"load_input", "step"} /\ runs # <<>> /\ ConcatPre) =>
        /\ status = "accept" <=> (runs[3].status = "accept" /\ runs[4].status = "accept")
        /\ status = "reject" <=> "reject" \in {runs[3].status, runs[4].status}
        /\ status \in Active \cup {"accept", "reject"}
        /\ status = "accept" => count = runs[3].steps + runs[4].steps + 1

\* the concatenation has returned Accept after the first machine moved the
\* head and the second took two steps of its own
C10_Witness ==
    /\ op = "step"
    /\ ConcatPre
    /\ status = "accept"
    /\ runs[3].status = "accept"
    /\ runs[4].status = "accept"
    /\ runs[3].steps >= 1
    /\ runs[4].steps >= 1
    /\ runs[3].tm.head_index # 0

----------------------------------------------------------------------------
(* SpecUnion: multiunion over a list of machines whose tables share keys *)

UnionPool ==
    { <<<<qStart, "a">>, <<<<Y, "a">>, right>>>>,
      <<<<qStart, "a">>, <<<<q1, "b">>, left>>>>,
      <<<<Y, "_">>, <<<<H, "_">>, hold>>>>,
      <<<<q1, "b">>, <<<<Y, "b">>, hold>>>> }

UnionMachines ==
    {Machine(t, c[1], c[2], ti) :
        t \in SubTables(UnionPool), c \in {<<qStart, Y>>, <<Y, q1>>}, ti \in {<<"A">>}}

UnionLists ==
    {<<A>> : A \in UnionMachines}
        \cup (UnionMachines \X UnionMachines)
        \cup {<<A, B, C>> : A \in UnionMachines,
                            B \in {M \in UnionMachines : M.initial = Y},
                            C \in {M \in UnionMachines : M.initial = qStart}}

InitUnion ==
    /\ tms \in UnionLists
    /\ tm = turing_machine(EmptyTable)
    /\ op = "turing_machine"
    /\ status = "none"
    /\ sts = <<>>
    /\ args = <<>>
    /\ count = 0
    /\ runs = <<>>
    /\ input = <<>>
    /\ log = <<>>
    /\ prevlog = <<>>
    /\ text = <<>>

\* tm = turing_machine::multiunion(tms, title)
Multiunion ==
    /\ op = "turing_machine"
    /\ \E title \in Titles :
          /\ tm' = multiunion(tms, title)
          /\ args' = <<title>>
    /\ op' = "multiunion"
    /\ UNCHANGED <<status, tms, sts, count, runs, runlog>>

NextUnion == Multiunion

SpecUnion == InitUnion /\ [][NextUnion]_vars

KeysOf(m) == DOMAIN m.transitions

\* the first machine of the list that has key k
FirstWith(machines, k) ==
    CHOOSE i \in 1..Len(machines) :
        /\ k \in KeysOf(machines[i])
        /\ \A j \in 1..(i - 1) : k \notin KeysOf(machines[j])

\* C11: multiunion over M1..MN with title T has M1's initial and accept, title
\* T, and as table keys exactly the union of the operands' keys; every entry is
\* an operand's entry as it stands (that of the first operand with the key), so
\* no label is renamed and no redirect entry is added.
C11_UnionMergesTables ==
    op = "multiunion" =>
        /\ tm.initial = tms[1].initial
        /\ tm.accept = tms[1].accept
        /\ tm.title = args[1]
        /\ KeysOf(tm) = UNION {KeysOf(tms[i]) : i \in 1..Len(tms)}
        /\ \A k \in KeysOf(tm) :
              tm.transitions[k] = tms[FirstWith(tms, k)].transitions[k]

\* three machines were united: two of them have different reactions under one
\* key, and the last has a key the others lack
C11_Witness ==
    /\ op = "multiunion"
    /\ Len(tms) = 3
    /\ \E k \in KeysOf(tms[1]) \cap KeysOf(tms[2]) :
          tms[1].transitions[k] # tms[2].transitions[k]
    /\ \E k \in KeysOf(tms[3]) : k \notin KeysOf(tms[1]) \cup KeysOf(tms[2])
    /\ tm.title # tms[1].title

----------------------------------------------------------------------------
(* SpecRepeat: component::repeat over a consume_right body, then run_input   *)
(* of the repeater on an input over symbols of the alphabet.                  *)

MaxRepeatLen == 3
MaxRepeatSteps == 7

RepeatSymbols == {"1", "2", ":", "_"}
RepeatInputs == UNION {[1..n -> RepeatSymbols] : n \in 0..MaxRepeatLen}

BodyTitle == <<"c">>
RepeatName == <<"r">>

InitRepeat ==
    /\ \E a \in RepeatSymbols :
          /\ tms = <<consume_right(a, BodyTitle)>>
          /\ args = <<a>>
    /\ tm = turing_machine(EmptyTable)
    /\ op = "consume_right"
    /\ status = "none"
    /\ sts = <<>>
    /\ count = 0
    /\ runs = <<>>
    /\ input = <<>>
    /\ log = <<>>
    /\ prevlog = <<>>
    /\ text = <<>>

\* tm = repeat(tms[1], type, g, name); args = << a, type, g >>
Repeat ==
    /\ op = "consume_right"
    /\ \E type \in {do_until, do_while}, g \in RepeatSymbols :
          /\ tm' = repeat(tms[1], type, g, RepeatName)
          /\ args' = <<args[1], type, g>>
    /\ op' = "repeat"
    /\ UNCHANGED <<status, tms, sts, count, runs, runlog>>

RepeatLoadInput ==
    /\ op = "repeat"
    /\ \E in \in RepeatInputs :
          /\ input' = in
          /\ tm' = load_input(tm, in)
    /\ status' = "none"
    /\ count' = 0
    /\ log' = <<>>
    /\ op' = "load_input"
    /\ UNCHANGED <<tms, sts, args, runs, prevlog, text>>

\* one iteration of run_input's do-while; log keeps the status returned and
\* the (state, symbol) the step started from
RepeatStep ==
    /\ op \in {"load_input", "step"}
    /\ status \in {"none", "running"}
    /\ count < MaxRepeatSteps
    /\ tm' = step(tm).tm
    /\ status' = step(tm).status
    /\ log' = Append(log, <<step(tm).status, tm.current_state, current_symbol(tm)>>)
    /\ count' = count + 1
    /\ op' = "step"
    /\ UNCHANGED <<tms, sts, args, runs, input, prevlog, text>>

NextRepeat == Repeat \/ RepeatLoadInput \/ RepeatStep

SpecRepeat == InitRepeat /\ [][NextRepeat]_vars

\* a^k followed by one more symbol
AThen(a, k, last) == [i \in 1..(k + 1) |-> IF i <= k THEN a ELSE last]

\* how often the body's consume transition has been applied
Consumed ==
    Cardinality({i \in DOMAIN log :
        /\ log[i][1] # "reject"
        /\ log[i][2] = Bracketed(BodyTitle, tms[1].initial)
        /\ log[i][3] = args[1]})

Running == {"none", "running"}

\* C12: Repeat(Consume(a, Right), DoUntil, g), a # g: on a^k g (k >= 1) the run
\* consumes the k a's and returns Accept with the head on g (every iteration
\* takes three steps: consume, accept -> check, check -> initial or break); on
\* a^k c with c # a, c # g it returns Reject.
C12_DoUntilConsumesThenAccepts ==
    (op \in {"load_input", "step"} /\ args[2] = do_until /\ args[1] # args[3]) =>
        \A k \in 1..MaxRepeatLen :
            /\ input = AThen(args[1], k, args[3]) =>
                  /\ count < 3 * k => status \in Running
                  /\ count = 3 * k =>
                        /\ status = "accept"
                        /\ tm.head_index = k
                        /\ current_symbol(tm) = args[3]
                        /\ tape(tm) = input
                        /\ Consumed = k
            /\ \A c \in RepeatSymbols \ {args[1], args[3]} :
                  input = AThen(args[1], k, c) =>
                      /\ count < 3 * k + 1 => status \in Running
                      /\ count = 3 * k + 1 => (status = "reject" /\ Consumed = k)

\* the do-until repeater has accepted a a g after consuming both a's
C12_Witness ==
    /\ op = "step"
    /\ args[2] = do_until
    /\ args[1] # args[3]
    /\ input = AThen(args[1], 2, args[3])
    /\ status = "accept"
    /\ Consumed = 2

\* C13 (as claimed): Repeat(Consume(a, Right), DoUntil, g) on an input whose
\* first symbol is g accepts with zero iterations of the body: the run ends in
\* Accept and the consume transition is never applied.
C13_GuardFirstAcceptsAtOnce ==
    (op = "step" /\ args[2] = do_until /\ input # <<>> /\ input[1] = args[3]
        /\ status \notin Running) =>
            (status = "accept" /\ Consumed = 0)

\* run_input's do-while on m, at most fuel + 1 steps
RECURSIVE run_to_end(_, _)
run_to_end(m, fuel) ==
    LET r == step(m)
    IN  IF r.status = "running" /\ fuel > 0 THEN run_to_end(r.tm, fuel - 1) ELSE r

\* the loop the claim describes: stop and accept once the symbol under the head
\* is not g (DoWhile) or is g (DoUntil), after zero or more accepting runs of B
RECURSIVE zero_or_more(_, _, _, _, _)
zero_or_more(B, type, g, m, fuel) ==
    IF (type = do_while) = (current_symbol(m) # g) THEN "accept"
    ELSE IF fuel = 0 THEN "unknown"
    ELSE LET r == run_to_end(hand_over(B, m), fuel)
         IN  IF r.status = "accept" THEN zero_or_more(B, type, g, r.tm, fuel - 1)
             ELSE IF r.status = "running" THEN "unknown"
             ELSE "no accept"

\* C14 (as claimed): Repeat(B, DoWhile, g) returns Accept iff some n >= 0
\* (zero allowed) consecutive accepting iterations of B leave a symbol other
\* than g under the head, g being under the head after each earlier one;
\* DoUntil with "is g" and "is not g" exchanged.
C14_AcceptsIffZeroOrMoreIterations ==
    (op = "step" /\ status \notin Running) =>
        LET expected == zero_or_more(tms[1], args[2], args[3],
                                     load_input(tms[1], input), MaxRepeatSteps)
        IN  expected # "unknown" => ((status = "accept") <=> (expected = "accept"))

----------------------------------------------------------------------------
(* SpecLabels: two machines with distinct titles are prefixed by their titles *)
(* and the second table is added to the first, as the fold step of            *)
(* multiconcat does. Titles and labels may contain brackets.                  *)

MaxTitleLen == 2

TitleChars == {"t", "]", "["}
TitlePool == UNION {[1..n -> TitleChars] : n \in 1..MaxTitleLen}

LabelPool == {Y, <<"]", "Y">>, <<"[", "t", "]", "Y">>, <<"t", "]", "Y">>}

TitledMachines ==
    {Machine(to_transition_table({<<<<q, "a">>, <<<<q2, "a">>, hold>>>>}), q, Y, ti) :
        q \in LabelPool, q2 \in {Y, <<"]", "Y">>}, ti \in TitlePool}

InitLabels ==
    /\ tms \in {p \in TitledMachines \X TitledMachines : p[1].title # p[2].title}
    /\ tm = turing_machine(EmptyTable)
    /\ op = "turing_machine"
    /\ status = "none"
    /\ sts = <<>>
    /\ args = <<>>
    /\ count = 0
    /\ runs = <<>>
    /\ input = <<>>
    /\ log = <<>>
    /\ prevlog = <<>>
    /\ text = <<>>

\* result = first.prefixed(); result.add_transitions(second.prefixed().transitions)
AddPrefixed ==
    /\ op = "turing_machine"
    /\ tm' = add_transitions(prefixed(tms[1]), prefixed(tms[2]).transitions)
    /\ op' = "add_transitions"
    /\ UNCHANGED <<status, tms, sts, args, count, runs, runlog>>

NextLabels == AddPrefixed

SpecLabels == InitLabels /\ [][NextLabels]_vars

\* the added table met no key already present: every entry of it is in tm
AddedWhole(m, table) ==
    \A k \in DOMAIN table : k \in KeysOf(m) /\ m.transitions[k] = table[k]

IsPrefixOf(p, q) == Len(p) <= Len(q) /\ SubSeq(q, 1, Len(p)) = p

\* one title is the other followed by "]" and possibly more
BracketExtends(t1, t2) == IsPrefixOf(t1 \o <<"]">>, t2)

\* C15 (as claimed): for any two machines with distinct titles the label sets
\* of the title-prefixed forms are disjoint and adding the second prefixed
\* table to the first meets no key already present, whatever the titles and
\* labels.
C15_DistinctTitlesDisjointLabels ==
    op = "add_transitions" =>
        /\ DisjointLabels(tms)
        /\ AddedWhole(tm, prefixed(tms[2]).transitions)

\* C15 (amended): the same, for distinct titles neither of which is the other
\* followed by "]" and possibly more characters; labels are arbitrary and may
\* carry "[...]" prefixes.
C15_DisjointUnlessBracketExtends ==
    (op = "add_transitions"
        /\ ~BracketExtends(tms[1].title, tms[2].title)
        /\ ~BracketExtends(tms[2].title, tms[1].title)) =>
            /\ DisjointLabels(tms)
            /\ AddedWhole(tm, prefixed(tms[2]).transitions)

\* two machines with the same labels, one of them carrying a "[t]" prefix
\* already, and titles "t" and "[t" were prefixed and merged
C15_Witness ==
    /\ op = "add_transitions"
    /\ tms[1].title = <<"t">>
    /\ tms[2].title = <<"[", "t">>
    /\ tms[1].initial = <<"[", "t", "]", "Y">>
    /\ tms[2].initial = <<"]", "Y">>
    /\ KeysOf(tm) = KeysOf(prefixed(tms[1])) \cup KeysOf(prefixed(tms[2]))
    /\ Cardinality(KeysOf(tm)) = 2

----------------------------------------------------------------------------
(* SpecIO: a machine is written with operator<<, the text is possibly damaged *)
(* in one record, and read back into a fresh machine with operator>>.         *)

Pass == <<"p", "a", "s", "s", ":">>

IOMachines ==
    {turing_machine(t) : t \in Tables}
        \cup {consume_right(c, ti) : c \in {"1", ":"}, ti \in {<<"p">>, Pass}}
        \cup {multiconcat(<<consume_right(c, ti)>>, component_alphabet, Solver) :
                 c \in {"1", ":"}, ti \in {<<"p">>, Pass}}
        \cup {multiconcat(<<consume_right("1", <<"p">>), consume_right(c, ti)>>,
                          {"1", ":"}, Solver) :
                 c \in {"1", ":"}, ti \in {<<"q">>, Pass}}

RECURSIVE key_order(_)
key_order(keys) ==
    IF keys = {} THEN <<>>
    ELSE LET k == CHOOSE x \in keys : TRUE IN <<k>> \o key_order(keys \ {k})

Faults == {"from: one field", "to: one field", "to: two fields", "to: empty symbol",
           "to: unknown direction", "to: missing"}

join(fields) == fields[1] \o <<",">> \o fields[2]

\* the text with record j damaged; record j is lines 3j+1 (from), 3j+2 (to)
damage(lines, j, fault) ==
    LET from == split_line(lines[3 * j + 1], ",")
        to == split_line(lines[3 * j + 2], ",")
    IN  IF fault = "from: one field" THEN [lines EXCEPT ![3 * j + 1] = from[1]]
        ELSE IF fault = "to: one field" THEN [lines EXCEPT ![3 * j + 2] = to[1]]
        ELSE IF fault = "to: two fields" THEN [lines EXCEPT ![3 * j + 2] = join(to)]
        ELSE IF fault = "to: empty symbol"
        THEN [lines EXCEPT ![3 * j + 2] = to[1] \o <<",">>]
        ELSE IF fault = "to: unknown direction"
        THEN [lines EXCEPT ![3 * j + 2] = join(to) \o <<",", "x">>]
        ELSE SubSeq(lines, 1, 3 * j + 1)

InitIO ==
    /\ tm \in IOMachines
    /\ op = "turing_machine"
    /\ status = "none"
    /\ tms = <<>>
    /\ sts = <<>>
    /\ args = <<>>
    /\ count = 0
    /\ runs = <<>>
    /\ input = <<>>
    /\ log = <<>>
    /\ prevlog = <<>>
    /\ text = <<>>

\* out << tm; args = << order of iteration >>
Write ==
    /\ op = "turing_machine"
    /\ \E order \in {key_order(KeysOf(tm)), Reverse(key_order(KeysOf(tm)))} :
          /\ text' = operator_out(tm, order)
          /\ args' = <<order>>
    /\ op' = "operator<<"
    /\ UNCHANGED <<tm, status, tms, sts, count, runs, input, log, prevlog>>

\* one record of the text is damaged; args = << order, j, fault >>
Damage ==
    /\ op = "operator<<"
    /\ \E j \in 1..Len(args[1]), fault \in Faults :
          /\ fault = "to: missing" => j = Len(args[1])
          /\ text' = damage(text, j, fault)
          /\ args' = <<args[1], j, fault>>
    /\ op' = "damage"
    /\ UNCHANGED <<tm, status, tms, sts, count, runs, input, log, prevlog>>

\* turing_machine read{}; in >> read;  tms = << read >>
Read ==
    /\ op \in {"operator<<", "damage"}
    /\ header_defined(text)
    /\ \E junk \in {",", "0"} :
          LET r == operator_in(turing_machine(EmptyTable), text, junk)
          IN  /\ tms' = <<r.tm>>
              /\ status' = IF r.failed THEN "format error" ELSE "none"
    /\ op' = "operator>>"
    /\ UNCHANGED <<tm, sts, args, count, runs, runlog>>

NextIO == Write \/ Damage \/ Read

SpecIO == InitIO /\ [][NextIO]_vars

\* what run_input returns for m on input in
outcome(m, in) == run_to_end(load_input(m, in), MaxSteps).status

\* C16 (as claimed): writing any machine, combinator-built ones with titles such
\* as "pass:" and states such as ":" included, and reading the text back into a
\* fresh machine gives the same transitions, initial and accept, hence the same
\* outcome on every input.
C16_WriteReadRoundTrip ==
    (op = "operator>>" /\ Len(args) = 1) =>
        /\ status # "format error"
        /\ tms[1].transitions = tm.transitions
        /\ tms[1].initial = tm.initial
        /\ tms[1].accept = tm.accept
        /\ \A in \in Inputs \cup {<<"1">>, <<":">>, <<"1", ":">>} :
              outcome(tms[1], in) = outcome(tm, in)

\* the entries of m under the first n keys of order
FirstEntries(m, order, n) ==
    [k \in {order[i] : i \in 1..n} |-> m.transitions[k]]

\* C17: reading a text with a record that has fewer than two fields on its
\* from-line, fewer than three on its to-line, or an unknown direction ends with
\* a format error; the machine holds the header values (those a read of the two
\* header lines alone gives, the written labels when they have no ':') and
\* exactly the transitions of the records before the faulty one.
C17_FormatErrorKeepsEarlierRecords ==
    (op = "operator>>" /\ Len(args) = 3) =>
        /\ status = "format error"
        /\ tms[1].transitions = FirstEntries(tm, args[1], args[2] - 1)
        /\ LET header == operator_in(turing_machine(EmptyTable), SubSeq(text, 1, 2), ",").tm
           IN  /\ tms[1].initial = header.initial
               /\ tms[1].accept = header.accept
        /\ (\A i \in 1..Len(tm.initial) : tm.initial[i] # ":") => tms[1].initial = tm.initial
        /\ (\A i \in 1..Len(tm.accept) : tm.accept[i] # ":") => tms[1].accept = tm.accept

\* the second record's to-line lacked its direction: the read failed and kept
\* the first record
C17_Witness ==
    /\ op = "operator>>"
    /\ Len(args) = 3
    /\ args[2] = 2
    /\ args[3] = "to: two fields"
    /\ status = "format error"
    /\ KeysOf(tms[1]) = {args[1][1]}
    /\ tms[1].initial = tm.initial

----------------------------------------------------------------------------
(* SpecMove: move_right / move_left machines and concatenations of two        *)
(* move_right machines, run as run_input runs them on inputs over the         *)
(* alphabet. args = << amount, direction >> or << amount1, amount2 >>.        *)

MaxAmount == 3
MaxMoveInput == 3

MoveSymbols == {"1", "#"}
MoveInputs == UNION {[1..n -> MoveSymbols] : n \in 0..MaxMoveInput}

InitMove ==
    /\ \/ \E n \in 1..MaxAmount :
             \/ /\ tm = move_right(n, <<"m">>)
                /\ tms = <<>>
                /\ args = <<n, right>>
                /\ op = "_move"
             \/ /\ tm = move_left(n, <<"m">>)
                /\ tms = <<>>
                /\ args = <<n, left>>
                /\ op = "_move"
       \/ \E n1, n2 \in 1..(MaxAmount - 1) :
             /\ tm = turing_machine(EmptyTable)
             /\ tms = <<move_right(n1, <<"a">>), move_right(n2, <<"b">>)>>
             /\ args = <<n1, n2>>
             /\ op = "turing_machine"
    /\ status = "none"
    /\ sts = <<>>
    /\ count = 0
    /\ runs = <<>>
    /\ input = <<>>
    /\ log = <<>>
    /\ prevlog = <<>>
    /\ text = <<>>

MoveConcat ==
    /\ op = "turing_machine"
    /\ tm' = multiconcat(tms, component_alphabet, Solver)
    /\ op' = "multiconcat"
    /\ UNCHANGED <<status, tms, sts, args, count, runs, runlog>>

MoveLoadInput ==
    /\ op \in {"_move", "multiconcat"}
    /\ \E in \in MoveInputs :
          /\ input' = in
          /\ tm' = load_input(tm, in)
    /\ status' = "none"
    /\ count' = 0
    /\ log' = <<>>
    /\ op' = "load_input"
    /\ UNCHANGED <<tms, sts, args, runs, prevlog, text>>

\* one iteration of run_input's do-while; log keeps the statuses returned
MoveStep ==
    /\ op \in {"load_input", "step"}
    /\ status \in Running
    /\ tm' = step(tm).tm
    /\ status' = step(tm).status
    /\ log' = Append(log, step(tm).status)
    /\ count' = count + 1
    /\ op' = "step"
    /\ UNCHANGED <<tms, sts, args, runs, input, prevlog, text>>

NextMove == MoveConcat \/ MoveLoadInput \/ MoveStep

SpecMove == InitMove /\ [][NextMove]_vars

\* Running k - 1 times, then Accept
AcceptAtStep(k) == [i \in 1..k |-> IF i < k THEN "running" ELSE "accept"]

\* C18 (as claimed): Move(n, dir) run from its initial state on symbols of the
\* alphabet returns Running n - 1 times and then Accept: Accept comes from the
\* n-th step.
C18_MoveAcceptsAtStepN ==
    (op = "step" /\ tms = <<>>) =>
        /\ count < args[1] => status = "running"
        /\ count = args[1] => log = AcceptAtStep(args[1])

\* n blanks
Blanks(n) == [i \in 1..n |-> blank_symbol]

\* C19 (as claimed): Move(3, Right) run to Accept on a two-symbol input has head
\* index 3, the input symbols unchanged and tape() = input + one blank.
C19_MoveThreeGrowsOneBlank ==
    (op = "step" /\ tms = <<>> /\ args = <<3, right>> /\ Len(input) = 2
        /\ status = "accept") =>
            /\ tm.head_index = 3
            /\ SubSeq(tape(tm), 1, 2) = input
            /\ tape(tm) = input \o Blanks(1)

Max(a, b) == IF a >= b THEN a ELSE b

\* C19 (amended): Move(n, Right) run to Accept on an input of L symbols has
\* head index n, the input symbols unchanged, and tape() is the input followed
\* by blanks up to length max(L, n + 1): for Move(3, Right) on two symbols the
\* input followed by exactly two blanks (length 4).
C19_MoveRightGrowsPastHead ==
    (op = "step" /\ tms = <<>> /\ args[2] = right /\ status = "accept") =>
        /\ tm.head_index = args[1]
        /\ SubSeq(tape(tm), 1, Len(input)) = input
        /\ tape(tm) = input \o Blanks(Max(Len(input), args[1] + 1) - Len(input))
        /\ (args[1] = 3 /\ Len(input) = 2) => tape(tm) = input \o Blanks(2)

\* Move(3, Right) has accepted on a two-symbol input
C19_Witness ==
    /\ op = "step"
    /\ tms = <<>>
    /\ args = <<3, right>>
    /\ Len(input) = 2
    /\ status = "accept"
    /\ Len(tape(tm)) = 4

\* C20 (as claimed): the concatenation of Move(2, Right) and Move(1, Right) on
\* a three-symbol input returns Running for three steps and Accept on the
\* fourth, with head index 3 and the input symbols unchanged.
C20_ConcatMovesAcceptAtStepFour ==
    (op = "step" /\ tms # <<>> /\ args = <<2, 1>> /\ Len(input) = 3) =>
        /\ count < 4 => status = "running"
        /\ count = 4 =>
              /\ log = AcceptAtStep(4)
              /\ tm.head_index = 3
              /\ SubSeq(tape(tm), 1, 3) = input

----------------------------------------------------------------------------
(* SpecFind: find_right / find_left machines run as run_input runs them on    *)
(* inputs over the alphabet. args = << needle, direction >>.                  *)

MaxFindInput == 4
MaxFindSteps == 6

FindSymbols == {"1", ":", "_"}
FindInputs == UNION {[1..n -> FindSymbols] : n \in 0..MaxFindInput}

InitFind ==
    /\ \E g \in FindSymbols :
          \/ /\ tm = find_right(g, <<"f">>)
             /\ args = <<g, right>>
          \/ /\ tm = find_left(g, <<"f">>)
             /\ args = <<g, left>>
    /\ op = "find"
    /\ tms = <<>>
    /\ status = "none"
    /\ sts = <<>>
    /\ count = 0
    /\ runs = <<>>
    /\ input = <<>>
    /\ log = <<>>
    /\ prevlog = <<>>
    /\ text = <<>>

FindLoadInput ==
    /\ op = "find"
    /\ \E in \in FindInputs :
          /\ input' = in
          /\ tm' = load_input(tm, in)
    /\ status' = "none"
    /\ count' = 0
    /\ log' = <<>>
    /\ op' = "load_input"
    /\ UNCHANGED <<tms, sts, args, runs, prevlog, text>>

\* one iteration of run_input's do-while; log keeps the statuses returned
FindStep ==
    /\ op \in {"load_input", "step"}
    /\ status \in Running
    /\ count < MaxFindSteps
    /\ tm' = step(tm).tm
    /\ status' = step(tm).status
    /\ log' = Append(log, step(tm).status)
    /\ count' = count + 1
    /\ op' = "step"
    /\ UNCHANGED <<tms, sts, args, runs, input, prevlog, text>>

NextFind == FindLoadInput \/ FindStep

SpecFind == InitFind /\ [][NextFind]_vars

Occurs(g, str) == \E i \in 1..Len(str) : str[i] = g

\* position (from 0) of the first g in str
FirstAt(g, str) ==
    (CHOOSE i \in 1..Len(str) : str[i] = g /\ \A j \in 1..(i - 1) : str[j] # g) - 1

\* C21: Find(g, Right) from head position 0 on an input whose first g is at
\* position k returns Running for k steps, the head advancing one cell per
\* step, and Accept on step k + 1 with a Hold: head index k, tape unchanged.
C21_FindRightStopsOnFirst ==
    (op \in {"load_input", "step"} /\ args[2] = right /\ Occurs(args[1], input)) =>
        LET k == FirstAt(args[1], input)
        IN  /\ tape(tm) = input
            /\ count <= k => (status \in Running /\ tm.head_index = count)
            /\ count = k + 1 =>
                  /\ log = AcceptAtStep(k + 1)
                  /\ tm.head_index = k
            /\ count <= k + 1

\* Find(':', Right) has accepted on an input with its first ':' at position 3
C21_Witness ==
    /\ op = "step"
    /\ args = <<":", right>>
    /\ Len(input) = 4
    /\ Occurs(":", input)
    /\ FirstAt(":", input) = 3
    /\ status = "accept"
    /\ tm.head_index = 3

----------------------------------------------------------------------------
(* component::row_expect and check_row, and SpecRow: check_row started with   *)
(* the head on cell p of a loaded tape and run as run_input's loop runs it.   *)
(* args = << p >>.                                                            *)

start == <<"s", "t", "a", "r", "t">>

\* seq | std::views::take(n), as a string
first_chars(seq, n) == SubSeq(seq, 1, n)

\* a row_expect loop whose entries hold the head instead of moving right
RECURSIVE row_loop_holding(_, _, _)
row_loop_holding(m, sequence, n) ==
    IF n > Len(sequence) - 2 THEN m
    ELSE LET next_subseq == first_chars(sequence, n + 1)
             subseq == first_chars(next_subseq, n)
             symbol == next_subseq[n + 1]
         IN  row_loop_holding(
                 add_transition(m, <<subseq, symbol>>, <<<<next_subseq, symbol>>, hold>>),
                 sequence, n + 1)

\* the loop of row_expect over n = 1 .. seq_len - 2, from n on
RECURSIVE row_loop(_, _, _)
row_loop(m, sequence, n) ==
    IF n > Len(sequence) - 2 THEN m
    ELSE LET next_subseq == first_chars(sequence, n + 1)
             subseq == first_chars(next_subseq, n)
             symbol == next_subseq[n + 1]
         IN  row_loop(
                 add_transition(m, <<subseq, symbol>>, <<<<next_subseq, symbol>>, right>>),
                 sequence, n + 1)

row_expect(sequence, name) ==
    LET named == set_initial_state(turing_machine(EmptyTable), start)
        seq_len == Len(sequence)
        first == sequence[1]
        last == sequence[seq_len]
        ends == add_transitions(named, to_transition_table({
                    <<<<named.initial, first>>,
                      <<<<first_chars(sequence, 1), first>>, right>>>>,
                    <<<<first_chars(sequence, seq_len - 1), last>>,
                      <<<<named.accept, last>>, hold>>>> }))
    IN  set_title(row_loop(ends, sequence, 1), name)

RowDigits == <<"1", "2", "3", "4">>

Position(c) == CHOOSE i \in 1..4 : RowDigits[i] = c

\* lexicographic order on two orderings of the digits
LexLess(x, y) ==
    \E i \in 1..4 :
        /\ \A j \in 1..(i - 1) : x[j] = y[j]
        /\ Position(x[i]) < Position(y[i])

RECURSIVE ascending(_)
ascending(S) ==
    IF S = {} THEN <<>>
    ELSE LET least == CHOOSE x \in S : \A y \in S \ {x} : LexLess(x, y)
         IN  <<least>> \o ascending(S \ {least})

\* the orderings std::next_permutation yields from {'1','2','3','4'}
permutations_sequence ==
    ascending({q \in [1..4 -> {"1", "2", "3", "4"}] : \A i, j \in 1..4 : q[i] = q[j] => i = j})

check_row(name) ==
    multiunion([i \in 1..Len(permutations_sequence) |->
                   row_expect(permutations_sequence[i], name)], name)

MaxRowInput == 5

RowSymbols == {"1", "2", "3", "4", ":"}
RowInputs == UNION {[1..n -> RowSymbols] : n \in 1..MaxRowInput}

InitRow ==
    /\ tm = check_row(<<"r">>)
    /\ op = "check_row"
    /\ args = <<>>
    /\ tms = <<>>
    /\ status = "none"
    /\ sts = <<>>
    /\ count = 0
    /\ runs = <<>>
    /\ input = <<>>
    /\ log = <<>>
    /\ prevlog = <<>>
    /\ text = <<>>

\* the tape is loaded and the machine is started with the head on cell p
RowStart ==
    /\ op = "check_row"
    /\ \E in \in RowInputs, p \in {0, 1} :
          /\ p < Len(in)
          /\ input' = in
          /\ tm' = [load_input(tm, in) EXCEPT !.head_index = p]
          /\ args' = <<p>>
    /\ status' = "none"
    /\ count' = 0
    /\ log' = <<>>
    /\ op' = "load_input"
    /\ UNCHANGED <<tms, sts, runs, prevlog, text>>

RowStep ==
    /\ op \in {"load_input", "step"}
    /\ status \in Running
    /\ tm' = step(tm).tm
    /\ status' = step(tm).status
    /\ log' = Append(log, step(tm).status)
    /\ count' = count + 1
    /\ op' = "step"
    /\ UNCHANGED <<tms, sts, args, runs, input, prevlog, text>>

NextRow == RowStart \/ RowStep

SpecRow == InitRow /\ [][NextRow]_vars

\* the symbol in cell i (from 0) of the loaded tape; blank past the input
CellOf(str, i) == IF i < Len(str) THEN str[i + 1] ELSE blank_symbol

\* cells p .. p+3 hold a permutation of 1,2,3,4
PermutationAt(str, p) == {CellOf(str, p + i) : i \in 0..3} = {"1", "2", "3", "4"}

\* C22: check_row started with the head on cell p returns Accept iff cells
\* p..p+3 hold a permutation of 1,2,3,4 and Reject otherwise (within four
\* steps); it never changes a tape symbol, and on Accept the head is at p + 3.
C22_CheckRowAcceptsPermutations ==
    (op \in {"load_input", "step"}) =>
        /\ \A i \in 0..(Len(tape(tm)) - 1) : tape(tm)[i + 1] = CellOf(input, i)
        /\ status \in Running \cup {"accept", "reject"}
        /\ status = "accept" <=> (count = 4 /\ PermutationAt(input, args[1]))
        /\ status = "reject" => ~PermutationAt(input, args[1])
        /\ count = 4 => status \notin Running
        /\ status = "accept" => tm.head_index = args[1] + 3

\* check_row has accepted a permutation that starts at cell 1
C22_Witness ==
    /\ op = "step"
    /\ args = <<1>>
    /\ status = "accept"
    /\ input = <<":", "3", "1", "4", "2">>
    /\ tm.head_index = 4

----------------------------------------------------------------------------
(* Tape length and head position over load_input and step *)

\* C23: after load_input(s) and any number of step() calls, tape() has length
\* at least max(1, |s|) (tape_right is never empty) and the length never
\* decreases from one step to the next. (SpecRerun: log holds tape() after
\* every step since the load.)
C23_TapeNeverShrinks ==
    input # NoInput =>
        /\ tm.tape_right # <<>>
        /\ Len(tape(tm)) >= Max(1, Len(input))
        /\ \A i \in 1..Len(log) :
              /\ Len(log[i][2]) >= Max(1, Len(input))
              /\ i > 1 => Len(log[i][2]) >= Len(log[i - 1][2])
        /\ log # <<>> => tape(tm) = log[Len(log)][2]

\* a run on the empty input has grown the tape on both sides
C23_Witness ==
    /\ input = <<>>
    /\ Len(log) >= 3
    /\ tm.tape_left # <<>>
    /\ Len(tm.tape_right) >= 2
    /\ Len(log[1][2]) < Len(tape(tm))

\* cells added to the two halves by a step from m to n
AddedLeft(m, n) == Len(n.tape_left) - Len(m.tape_left)
AddedRight(m, n) == Len(n.tape_right) - Len(m.tape_right)

\* C24: after load_input and any steps the head is on a materialized cell,
\* -|tape_left| <= head_index < |tape_right|; a step extends a tape half only
\* when the head moves one past its end, by exactly one blank cell (a first
\* step moving Left makes tape_left = <<blank>>), and adds at most one cell.
C24_HeadStaysOnTape ==
    [][ /\ op' = "load_input" => Loaded(tm')
        /\ (op' = "step" /\ Loaded(tm)) =>
              /\ Loaded(tm')
              /\ -Len(tm'.tape_left) <= tm'.head_index
              /\ tm'.head_index < Len(tm'.tape_right)
              /\ AddedLeft(tm, tm') \in {0, 1}
              /\ AddedRight(tm, tm') \in {0, 1}
              /\ AddedLeft(tm, tm') + AddedRight(tm, tm') <= 1
              /\ AddedRight(tm, tm') = 1 <=> tm'.head_index = Len(tm.tape_right)
              /\ AddedRight(tm, tm') = 1 =>
                    tm'.tape_right[Len(tm'.tape_right)] = blank_symbol
              /\ AddedLeft(tm, tm') = 1 <=> tm'.head_index = -Len(tm.tape_left) - 1
              /\ AddedLeft(tm, tm') = 1 =>
                    tm'.tape_left[Len(tm'.tape_left)] = blank_symbol
              /\ (tm.tape_left = <<>> /\ tm'.head_index = -1) =>
                    tm'.tape_left = <<blank_symbol>>
      ]_vars

\* the head has moved Left from cell 0 for the first time
C24_Witness ==
    /\ op = "step"
    /\ status = "running"
    /\ tm.head_index = -1
    /\ tm.tape_left = <<blank_symbol>>

----------------------------------------------------------------------------
(* The table built by component::repeat *)

\* the entry of table t that keeps symbol s, holds the head and enters q
KeepsAndHolds(t, from, s, q) ==
    /\ <<from, s>> \in DOMAIN t
    /\ t[<<from, s>>] = <<<<q, s>>, hold>>

\* C25: in repeat(body, variant, g, name) the override replaces the blanket
\* entry: there is one entry ("check", s) per alphabet symbol s; for DoUntil
\* ("check", g) leads to "break" and every other symbol to the body's prefixed
\* initial state, for DoWhile ("check", g) leads to the prefixed initial state
\* and every other symbol to "break"; these entries keep the symbol and Hold;
\* the body's prefixed accept leads to "check" over the alphabet, and the
\* result's accept is "break".
C25_RepeatCheckEntries ==
    op \in {"repeat", "load_input", "step"} =>
        LET body_initial == Bracketed(BodyTitle, tms[1].initial)
            body_accept == Bracketed(BodyTitle, tms[1].accept)
            on_guard == IF args[2] = do_until THEN break_state ELSE body_initial
            off_guard == IF args[2] = do_until THEN body_initial ELSE break_state
        IN  /\ tm.initial = body_initial
            /\ tm.accept = break_state
            /\ {k \in DOMAIN tm.transitions : k[1] = checker_state}
                  = {<<checker_state, s>> : s \in component_alphabet}
            /\ \A s \in component_alphabet :
                  /\ KeepsAndHolds(tm.transitions, checker_state, s,
                         IF s = args[3] THEN on_guard ELSE off_guard)
                  /\ KeepsAndHolds(tm.transitions, body_accept, s, checker_state)

\* a do-while repeater has been built and has gone through "check" on the guard
C25_Witness ==
    /\ op = "step"
    /\ args[2] = do_while
    /\ \E i \in DOMAIN log : log[i][2] = checker_state /\ log[i][3] = args[3]
    /\ tm.transitions[<<checker_state, args[3]>>][1][1] # break_state

----------------------------------------------------------------------------
(* Steps taken after a terminal status *)

\* C26 (as claimed): terminal statuses are final: once step() has returned
\* Accept or Halt on a loaded machine, a further step() leaves current_state,
\* head_index and the tape unchanged and does not return Running, also when
\* the accept state has outgoing transitions.
C26_TerminalStatusIsFinal ==
    [][ (op = "step" /\ status \in {"accept", "halt"} /\ op' = "step" /\ Loaded(tm)) =>
          /\ tm'.current_state = tm.current_state
          /\ tm'.head_index = tm.head_index
          /\ tape(tm') = tape(tm)
          /\ status' # "running" ]_vars

----------------------------------------------------------------------------
(* SpecBuilders: a machine made by one component builder, optionally put      *)
(* through prefix, multiconcat, multiunion or repeat, then loaded and run.     *)
(* The builders take any char; the pool holds two alphabet symbols and 'H'.    *)

MaxBuilderInput == 2
MaxBuilderSteps == 4

BuilderSymbols == {"1", ":", "H"}
BuilderInputs == UNION {[1..n -> BuilderSymbols] : n \in 0..MaxBuilderInput}
BuilderSequences == [1..2 -> BuilderSymbols] \cup {<<"1", "H", ":">>}

Built(name) ==
    {consume_right(s, name) : s \in BuilderSymbols}
    \cup {find(s, name, d) : s \in BuilderSymbols, d \in {left, right}}
    \cup {move_right(1, name), move_left(2, name)}
    \cup {row_expect(q, name) : q \in BuilderSequences}

\* the machines appended or united to the first one
Others == {consume_right(s, <<"o">>) : s \in BuilderSymbols}
          \cup {row_expect(<<"H", "1">>, <<"o">>), move_right(1, <<"o">>)}

InitBuilders ==
    /\ tm = turing_machine(EmptyTable)
    /\ op = "turing_machine"
    /\ status = "none"
    /\ input = <<>>
    /\ log = <<>>
    /\ prevlog = <<>>
    /\ text = <<>>
    /\ tms = <<>>
    /\ sts = <<>>
    /\ args = <<>>
    /\ count = 0
    /\ runs = <<>>

Build ==
    /\ op = "turing_machine"
    /\ tm' \in Built(<<"b">>)
    /\ op' = "build"
    /\ UNCHANGED <<status, runlog, operands>>

BuildPrefixed ==
    /\ op = "build"
    /\ tm' = prefixed(tm)
    /\ op' = "prefix"
    /\ UNCHANGED <<status, runlog, operands>>

BuildMulticoncat ==
    /\ op = "build"
    /\ \E o \in Others : tm' = multiconcat(<<tm, o>>, component_alphabet, <<"m">>)
    /\ op' = "multiconcat"
    /\ UNCHANGED <<status, runlog, operands>>

BuildMultiunion ==
    /\ op = "build"
    /\ \E o \in Others : tm' = multiunion(<<tm, o>>, <<"u">>)
    /\ op' = "multiunion"
    /\ UNCHANGED <<status, runlog, operands>>

BuildRepeat ==
    /\ op = "build"
    /\ \E type \in {do_until, do_while}, g \in BuilderSymbols :
          tm' = repeat(tm, type, g, <<"r">>)
    /\ op' = "repeat"
    /\ UNCHANGED <<status, runlog, operands>>

BuilderLoadInput ==
    /\ op \in {"build", "prefix", "multiconcat", "multiunion", "repeat"}
    /\ \E in \in BuilderInputs :
          /\ input' = in
          /\ tm' = load_input(tm, in)
    /\ args' = <<op>>
    /\ status' = "none"
    /\ count' = 0
    /\ op' = "load_input"
    /\ UNCHANGED <<tms, sts, runs, log, prevlog, text>>

\* one iteration of run_input's do-while
BuilderStep ==
    /\ op \in {"load_input", "step"}
    /\ status \in {"none", "running"}
    /\ count < MaxBuilderSteps
    /\ tm' = step(tm).tm
    /\ status' = step(tm).status
    /\ count' = count + 1
    /\ op' = "step"
    /\ UNCHANGED <<tms, sts, args, runs, input, log, prevlog, text>>

NextBuilders ==
    \/ Build
    \/ BuildPrefixed
    \/ BuildMulticoncat
    \/ BuildMultiunion
    \/ BuildRepeat
    \/ BuilderLoadInput
    \/ BuilderStep

SpecBuilders == InitBuilders /\ [][NextBuilders]_vars

\* C27 (as claimed): no run of a machine made by the default builders, or by
\* multiconcat, multiunion, prefix and repeat applied to them, returns Halt:
\* in every configuration of every run current_state differs from "H".
C27_BuildersNeverHalt ==
    op \in {"load_input", "step"} =>
        /\ status # "halt"
        /\ tm.current_state # H


\* row_expect("H1") run on "H1": the first step has returned Halt
C27_HaltReturned ==
    /\ op = "step"
    /\ status = "halt"
    /\ input = <<"H", "1">>
    /\ args = <<"build">>
    /\ tm.initial = start

----------------------------------------------------------------------------
(* SpecTable: the four operations that write the table, applied in any order  *)
(* to a machine; tms[1] is the machine before the last operation, args its     *)
(* arguments.                                                                  *)

MaxTableOps == 2

TableMachines == {Machine(t, qStart, Y, <<"A">>) : t \in SubTables(UnionPool)}
TableLists == {<<A>> : A \in TableMachines} \cup
              {<<A, B>> : A \in TableMachines, B \in {M \in TableMachines : <<Y, "_">> \in DOMAIN M.transitions}}

InitTable ==
    /\ tm \in TableMachines
    /\ tms = <<>>
    /\ op = "turing_machine"
    /\ status = "none"
    /\ sts = <<>>
    /\ args = <<>>
    /\ count = 0
    /\ runs = <<>>
    /\ input = <<>>
    /\ log = <<>>
    /\ prevlog = <<>>
    /\ text = <<>>

TableAddTransition ==
    /\ count < MaxTableOps
    /\ \E e \in UnionPool :
          /\ tm' = add_transition(tm, e[1], e[2])
          /\ args' = <<e[1], e[2]>>
    /\ tms' = <<tm>>
    /\ op' = "add_transition"
    /\ count' = count + 1
    /\ UNCHANGED <<status, sts, runs, runlog>>

TableAddTransitions ==
    /\ count < MaxTableOps
    /\ \E t \in SubTables(UnionPool) :
          /\ tm' = add_transitions(tm, t)
          /\ args' = <<t>>
    /\ tms' = <<tm>>
    /\ op' = "add_transitions"
    /\ count' = count + 1
    /\ UNCHANGED <<status, sts, runs, runlog>>

TableRedirectState ==
    /\ count < MaxTableOps
    /\ \E from \in {qStart, Y}, to \in {q1}, alphabet \in Alphabets :
          /\ tm' = redirect_state(tm, from, to, alphabet)
          /\ args' = <<from, to, alphabet>>
    /\ tms' = <<tm>>
    /\ op' = "redirect_state"
    /\ count' = count + 1
    /\ UNCHANGED <<status, sts, runs, runlog>>

\* tm = multiunion of tm followed by further machines
TableMultiunion ==
    /\ count < MaxTableOps
    /\ \E rest \in TableLists :
          /\ tm' = multiunion(<<tm>> \o rest, <<"B">>)
          /\ args' = <<<<tm>> \o rest>>
    /\ tms' = <<tm>>
    /\ op' = "multiunion"
    /\ count' = count + 1
    /\ UNCHANGED <<status, sts, runs, runlog>>

NextTable ==
    \/ TableAddTransition
    \/ TableAddTransitions
    \/ TableRedirectState
    \/ TableMultiunion

SpecTable == InitTable /\ [][NextTable]_vars

\* table t is table u except under the keys of K
SameOutside(t, u, K) ==
    /\ DOMAIN t \ K = DOMAIN u \ K
    /\ \A k \in DOMAIN u \ K : t[k] = u[k]

\* C28: add_transitions and multiunion never overwrite an entry: a key already
\* in the table keeps its reaction and the incoming one is dropped, so in
\* multiunion(M1..MN) a key keeps the reaction of the earliest machine that
\* has it; add_transition, and so redirect_state, replaces the reaction under
\* its key. Either way the table has one reaction per key, and no other key
\* is touched.
C28_MergeKeepsAssignReplaces ==
    /\ op = "add_transitions" =>
          /\ KeysOf(tm) = KeysOf(tms[1]) \cup DOMAIN args[1]
          /\ \A k \in KeysOf(tms[1]) : tm.transitions[k] = tms[1].transitions[k]
          /\ \A k \in DOMAIN args[1] \ KeysOf(tms[1]) : tm.transitions[k] = args[1][k]
    /\ op = "multiunion" =>
          /\ KeysOf(tm) = UNION {KeysOf(args[1][i]) : i \in 1..Len(args[1])}
          /\ \A k \in KeysOf(tm) :
                tm.transitions[k] = args[1][FirstWith(args[1], k)].transitions[k]
    /\ op = "add_transition" =>
          /\ args[1] \in KeysOf(tm)
          /\ tm.transitions[args[1]] = args[2]
          /\ SameOutside(tm.transitions, tms[1].transitions, {args[1]})
    /\ op = "redirect_state" =>
          /\ \A s \in args[3] :
                /\ <<args[1], s>> \in KeysOf(tm)
                /\ tm.transitions[<<args[1], s>>] = <<<<args[2], s>>, hold>>
          /\ SameOutside(tm.transitions, tms[1].transitions,
                         {<<args[1], s>> : s \in args[3]})
    /\ op # "turing_machine" =>
          tm.transitions \in [KeysOf(tm) -> {tm.transitions[k] : k \in KeysOf(tm)}]

\* an entry put in by add_transition in place of another has then survived a
\* merge that brought a third reaction under the same key
C28_Witness ==
    /\ op = "add_transitions"
    /\ count = 2
    /\ \E k \in KeysOf(tms[1]) \cap DOMAIN args[1] :
          /\ args[1][k] # tms[1].transitions[k]
          /\ tm.transitions[k] = tms[1].transitions[k]
          /\ tm.transitions[k][1][1] = q1

----------------------------------------------------------------------------
(* SpecLockstep: the actions of SpecPrefix from machines whose initial and     *)
(* accept labels vary over the reserved labels, "H" included.                  *)

InitLockstep ==
    /\ tm \in {Machine(t, i, a, <<"t">>) :
                  t \in Tables, i \in {qStart, H, q1}, a \in {Y, qStart, H}}
    /\ op = "turing_machine"
    /\ status = "none"
    /\ tms = <<>>
    /\ sts = <<>>
    /\ args = <<>>
    /\ count = 0
    /\ runs = <<>>
    /\ input = <<>>
    /\ log = <<>>
    /\ prevlog = <<>>
    /\ text = <<>>

SpecLockstep == InitLockstep /\ [][NextPrefix]_vars

\* neither a key, nor a next-state, nor the accept label of m is the halt label
HaltUnused(m) ==
    /\ m.accept # m.halt_state
    /\ \A k \in DOMAIN m.transitions :
          /\ k[1] # m.halt_state
          /\ m.transitions[k][1][1] # m.halt_state

\* C29: for M whose table and accept label do not use "H", every prefix p and
\* every input, M and prefix(p)(M) run in lockstep: after load_input and after
\* each step both have returned the same status, have the same tape and the
\* same head_index, and the state of prefix(p)(M) is "[p]" + the state of M.
C29_PrefixedRunsInLockstep ==
    (op \in {"load_input", "step"} /\ tms # <<>> /\ Loaded(tms[1]) /\ HaltUnused(tms[1])) =>
        /\ status = sts[1]
        /\ tape(tm) = tape(tms[1])
        /\ tm.tape_right = tms[1].tape_right
        /\ tm.head_index = tms[1].head_index
        /\ tm.current_state = Bracketed(args[1], tms[1].current_state)

\* both machines have accepted together after the tape had grown leftwards
C29_Witness ==
    /\ op = "step"
    /\ tms # <<>>
    /\ HaltUnused(tms[1])
    /\ sts[1] = "accept"
    /\ status = "accept"
    /\ tms[1].tape_left # <<>>
    /\ tm.current_state = Bracketed(args[1], Y)

----------------------------------------------------------------------------
(* SpecHandOver: multiconcat over two or three machines with distinct titles,  *)
(* then the run of the concatenation as run_input runs it.                     *)

MaxHandOverSteps == 5

HandOverPool ==
    { <<<<qStart, "a">>, <<<<Y, "a">>, right>>>>,
      <<<<qStart, "b">>, <<<<Y, "b">>, hold>>>>,
      <<<<Y, "a">>, <<<<qStart, "a">>, right>>>>,
      <<<<Y, "b">>, <<<<qStart, "a">>, left>>>>,
      <<<<Y, "_">>, <<<<qStart, "_">>, left>>>> }

Leaders == {Machine(t, c[1], c[2], <<"A">>) :
               t \in SubTables(HandOverPool), c \in {<<qStart, Y>>, <<Y, Y>>, <<qStart, H>>}}
Followers == {Machine(t, c[1], c[2], <<"B">>) :
                 t \in SubTables(SecondPool), c \in {<<qStart, Y>>, <<Y, Y>>}}
Closers == {Machine(t, qStart, Y, <<"C">>) : t \in SubTables(SecondPool)}

\* titles "t" and "t]": "[t]" + "]Y" is "[t]]" + "Y"
BracketLeaders ==
    {Machine(to_transition_table({<<<<qStart, "a">>, <<<<<<"]", "Y">>, "a">>, hold>>>>}),
             qStart, <<"]", "Y">>, <<"t">>)}

HandOverLists ==
    (Leaders \X Followers)
        \cup (BracketLeaders \X BracketSeconds)
        \cup {<<A, B, C>> : A \in {L \in Leaders : L.initial = qStart /\ L.accept = Y},
                            B \in {F \in Followers : F.initial = qStart},
                            C \in Closers}

InitHandOver ==
    /\ tms \in HandOverLists
    /\ tm = turing_machine(EmptyTable)
    /\ op = "turing_machine"
    /\ status = "none"
    /\ sts = <<>>
    /\ args = <<>>
    /\ count = 0
    /\ runs = <<>>
    /\ input = <<>>
    /\ log = <<>>
    /\ prevlog = <<>>
    /\ text = <<>>

HandOverLoadInput ==
    /\ op = "multiconcat"
    /\ \E in \in Inputs :
          /\ input' = in
          /\ tm' = load_input(tm, in)
    /\ status' = "none"
    /\ count' = 0
    /\ op' = "load_input"
    /\ UNCHANGED <<tms, sts, args, runs, log, prevlog, text>>

\* one iteration of run_input's do-while
HandOverStep ==
    /\ op \in {"load_input", "step"}
    /\ status \in Active
    /\ count < MaxHandOverSteps
    /\ tm' = step(tm).tm
    /\ status' = step(tm).status
    /\ count' = count + 1
    /\ op' = "step"
    /\ UNCHANGED <<tms, sts, args, runs, runlog>>

NextHandOver == Multiconcat \/ HandOverLoadInput \/ HandOverStep

SpecHandOver == InitHandOver /\ [][NextHandOver]_vars

\* the labels multiconcat gives to the accept and initial state of machine i
AcceptOf(i) == Bracketed(tms[i].title, tms[i].accept)
InitialOf(i) == Bracketed(tms[i].title, tms[i].initial)

\* the step from m to n held the head and left the tape as it was
HeldStill(m, n) ==
    /\ n.head_index = m.head_index
    /\ n.tape_left = m.tape_left
    /\ n.tape_right = m.tape_right

\* C30 (as claimed): in multiconcat over two or more machines with distinct
\* titles, step() returns Accept only when the new state is the prefixed
\* accept of the last machine; entering the prefixed accept of an earlier
\* machine returns Running; from that state the next step holds head and tape
\* and enters the next machine's prefixed initial state when the symbol under
\* the head is in the alphabet, and returns Reject when it is not.
C30_HandOverOrReject ==
    [][ op' = "step" =>
          /\ status' = "accept" => tm'.current_state = AcceptOf(Len(tms))
          /\ \A i \in 1..(Len(tms) - 1) :
                /\ (status' # "reject" /\ tm'.current_state = AcceptOf(i))
                      => status' = "running"
                /\ tm.current_state = AcceptOf(i) =>
                      IF current_symbol(tm) \in args[1]
                      THEN /\ HeldStill(tm, tm')
                           /\ tm'.current_state = InitialOf(i + 1)
                      ELSE status' = "reject"
      ]_vars

\* C30 (amended): as claimed for the Accept status; when the title-prefixed
\* label sets of the machines are pairwise disjoint, entering the prefixed
\* accept of an earlier machine Mi returns Running, and from that state the
\* next step holds head and tape and enters the next machine's prefixed
\* initial state when the symbol under the head is in the alphabet; when it is
\* not, the step is Mi's own transition out of its accept state on that
\* symbol, renamed, and Reject when Mi has none.
C30_HandOverOrOwnTransition ==
    [][ op' = "step" =>
          /\ status' = "accept" => tm'.current_state = AcceptOf(Len(tms))
          /\ DisjointLabels(tms) => \A i \in 1..(Len(tms) - 1) :
                /\ (status' # "reject" /\ tm'.current_state = AcceptOf(i))
                      => status' = "running"
                /\ tm.current_state = AcceptOf(i) =>
                      LET own == <<tms[i].accept, current_symbol(tm)>>
                      IN  IF current_symbol(tm) \in args[1]
                          THEN /\ HeldStill(tm, tm')
                               /\ tm'.current_state = InitialOf(i + 1)
                               /\ status' \in {"running", "accept"}
                          ELSE IF own \in DOMAIN tms[i].transitions
                          THEN /\ status' # "reject"
                               /\ tm'.current_state =
                                     Bracketed(tms[i].title, tms[i].transitions[own][1][1])
                               /\ tm'.head_index =
                                     tm.head_index + index_diff(tms[i].transitions[own][2])
                          ELSE status' = "reject" /\ tm' = tm
      ]_vars

\* a concatenation of three machines has been handed from the first to the
\* second and from the second to the third, and has accepted in the third
C30_Witness ==
    /\ op = "step"
    /\ Len(tms) = 3
    /\ DisjointLabels(tms)
    /\ status = "accept"
    /\ tm.current_state = AcceptOf(3)
    /\ count >= 5
    /\ tm.head_index # 0

----------------------------------------------------------------------------
(* SpecFindBack: find_left('_') ("move_back") and find_right(g), g not blank, *)
(* started where a preceding machine of a concatenation has left the head, on *)
(* a tape over the alphabet, and run by run_input's loop, which calls step()  *)
(* for as long as the status is Running. tms[1] is the machine as started.    *)

MaxBackInput == 2
MaxBackLeft == 1

\* the cap on the steps of a run: what the longest search to the left takes
\* (over the input and the left half, onto one new cell, and the accepting Hold)
MaxBackSteps == MaxBackInput + MaxBackLeft + 1

BackInputs == UNION {[1..n -> FindSymbols] : n \in 0..MaxBackInput}
BackLefts == UNION {[1..n -> FindSymbols] : n \in 0..MaxBackLeft}

InitFindBack ==
    /\ \/ /\ tm = find_left(blank_symbol, <<"m", "o", "v", "e", "_", "b", "a", "c", "k">>)
          /\ args = <<blank_symbol, left>>
       \/ \E g \in FindSymbols \ {blank_symbol} :
             /\ tm = find_right(g, <<"f">>)
             /\ args = <<g, right>>
    /\ op = "find"
    /\ tms = <<>>
    /\ status = "none"
    /\ sts = <<>>
    /\ count = 0
    /\ runs = <<>>
    /\ input = <<>>
    /\ log = <<>>
    /\ prevlog = <<>>
    /\ text = <<>>

\* the tape is loaded; the head is on a cell p of the tape, whose left half
\* holds what earlier steps have put there
FindBackStart ==
    /\ op = "find"
    /\ \E in \in BackInputs, l \in BackLefts :
          LET loaded == [load_input(tm, in) EXCEPT !.tape_left = l]
          IN  \E p \in Positions(loaded) :
                 /\ input' = in
                 /\ tm' = [loaded EXCEPT !.head_index = p]
                 /\ tms' = <<[loaded EXCEPT !.head_index = p]>>
    /\ status' = "none"
    /\ count' = 0
    /\ op' = "load_input"
    /\ UNCHANGED <<sts, args, runs, log, prevlog, text>>

\* one iteration of run_input's do-while
FindBackStep ==
    /\ op \in {"load_input", "step"}
    /\ status \in Running
    /\ count < MaxBackSteps
    /\ tm' = step(tm).tm
    /\ status' = step(tm).status
    /\ count' = count + 1
    /\ op' = "step"
    /\ UNCHANGED <<tms, sts, args, runs, input, log, prevlog, text>>

NextFindBack == FindBackStart \/ FindBackStep

\* run_input's loop does not stop while the status is Running
SpecFindBack == InitFindBack /\ [][NextFindBack]_vars /\ WF_vars(FindBackStep)

\* the blank cells of m at or to the left of its head
BlanksBehind(m) ==
    {i \in Positions(m) : i <= m.head_index /\ Cell(m, i) = blank_symbol}

\* the nearest blank at or to the left of the head: a cell of the tape, or the
\* first cell beyond its left end
NearestBlank(m) ==
    IF BlanksBehind(m) = {} THEN -Len(m.tape_left) - 1
    ELSE CHOOSE i \in BlanksBehind(m) : \A j \in BlanksBehind(m) : j <= i

\* g is on no cell of m at or to the right of its head
AbsentAhead(g, m) == \A i \in Positions(m) : i >= m.head_index => Cell(m, i) # g

BackRun == op \in {"load_input", "step"} /\ args = <<blank_symbol, left>>

\* the run of Find(blank, Left) step by step, and that of Find(g, Right)
\* without a g ahead
C31_Safe ==
    /\ BackRun =>
          LET from == tms[1]
              to == NearestBlank(from)
              d == from.head_index - to
          IN  /\ count <= d + 1
              /\ count <= d => (status \in Running /\ tm.head_index = from.head_index - count)
              /\ count = d + 1 =>
                    /\ status = "accept"
                    /\ tm.head_index = to
                    /\ current_symbol(tm) = blank_symbol
              /\ tm.tape_right = from.tape_right
              /\ tm.tape_left \in {from.tape_left, Append(from.tape_left, blank_symbol)}
              /\ tm.tape_left # from.tape_left =>
                    (BlanksBehind(from) = {} /\ tm.head_index = to)
    /\ (op \in {"load_input", "step"} /\ args[2] = right /\ AbsentAhead(args[1], tms[1])) =>
          /\ status \in Running
          /\ tm.head_index = tms[1].head_index + count
          /\ tm.tape_left = tms[1].tape_left
          /\ \E n \in 0..count : tm.tape_right = tms[1].tape_right \o Blanks(n)

\* C31: Find(blank, Left) terminates on every tape over the alphabet: from any
\* head position it returns Accept after finitely many steps, with the head on
\* the nearest blank at or to the left of the starting cell, no symbol changed
\* and at most one blank cell added to the left; Find(g, Right) for a non-blank
\* g that is on no cell at or right of the head never returns a terminal
\* status: it goes on to the right over blanks.
C31_FindBackTerminates ==
    /\ []C31_Safe
    /\ BackRun ~> (BackRun /\ status = "accept")

\* move_back, started on the second cell of the input on a tape without a blank
\* behind the head, has accepted on the blank cell it added on the left
C31_Witness ==
    /\ BackRun
    /\ status = "accept"
    /\ tms[1].head_index >= 1
    /\ tms[1].tape_left # <<>>
    /\ BlanksBehind(tms[1]) = {}
    /\ tm.tape_left = Append(tms[1].tape_left, blank_symbol)
    /\ tm.head_index = -Len(tm.tape_left)
    /\ count = MaxBackSteps

====
